---- MODULE Spec2Model ----
(***************************************************************************)
(* Model of the profile generator's scraper (src/utils/scraper.py):        *)
(* scrape_multiple_urls, the batch orchestrator, and scrape_single_url,    *)
(* the single-URL strategy chain.                                          *)
(*                                                                         *)
(* Text is modelled run-length encoded: a text is a sequence of segments,  *)
(* each a run of characters of one kind (a newline run, a delimiter        *)
(* written by the code, opaque page content, ...) with its length n and    *)
(* the length `full` it had before any slice cut it.  len(), slicing       *)
(* ([:k]), strip() and join() act on character counts, so the code's       *)
(* real caps (15000, 8000, 50, ...) are used unchanged.                    *)
(***************************************************************************)
EXTENDS Integers, Sequences, FiniteSets, TLC

\* ------------------------------------------------------------------ bounds
\* The longest URL list handed to scrape_multiple_urls.
MaxUrls == 3

\* ------------------------------------------------------- program constants
BatchCap == 15000
ResultCap == 8000
MinSuccessLen == 50
JsonldMin == 100
NextdataMin == 100
SupplementMin == 100
SemanticMin == 200
BodyMin == 100
ContainerMin == 150
MinElementLen == 5
MinBodyLineLen == 10
MinMetaLen == 10
MinDescLen == 50
NumHeaderSets == 3
SiteMin == 100
SiteBodyMin == 200
CacheMin == 200
NumSiteHeaderSets == 4

\* ------------------------------------------------------------------- text
Seg(k, tag, n) == [k |-> k, tag |-> tag, n |-> n, full |-> n]

\* A literal or an interpolated value of n characters (nothing when n = 0).
Txt(k, tag, n) == IF n = 0 THEN << >> ELSE << Seg(k, tag, n) >>

NL(n) == Txt("nl", << >>, n)

IsSpace(s) == s.k \in {"nl", "sp"}

RECURSIVE TextLen(_)
TextLen(t) == IF t = << >> THEN 0 ELSE Head(t).n + TextLen(Tail(t))

\* t[:c]
RECURSIVE Take(_, _)
Take(t, c) ==
  IF t = << >> \/ c <= 0 THEN << >>
  ELSE IF Head(t).n <= c THEN << Head(t) >> \o Take(Tail(t), c - Head(t).n)
  ELSE << [Head(t) EXCEPT !.n = c] >>

RECURSIVE LStrip(_)
LStrip(t) == IF t # << >> /\ IsSpace(Head(t)) THEN LStrip(Tail(t)) ELSE t

RECURSIVE RStrip(_)
RStrip(t) ==
  IF t # << >> /\ IsSpace(t[Len(t)]) THEN RStrip(SubSeq(t, 1, Len(t) - 1)) ELSE t

\* t.strip()
Strip(t) == RStrip(LStrip(t))

\* sep.join(parts)
RECURSIVE Join(_, _)
Join(parts, sep) ==
  IF parts = << >> THEN << >>
  ELSE IF Len(parts) = 1 THEN parts[1]
  ELSE parts[1] \o sep \o Join(Tail(parts), sep)

\* A delimiter the code wrote is in the text whole (no slice cut into it).
Whole(s) == s.n = s.full

\* ------------------------------------------------------------------- URLs
\* A URL is a sequence of characters; " " is whitespace.
UrlStrip(u) ==
  LET IsSp(c) == c = " "
      RECURSIVE L(_)
      L(s) == IF s # << >> /\ IsSp(Head(s)) THEN L(Tail(s)) ELSE s
      RECURSIVE R(_)
      R(s) == IF s # << >> /\ IsSp(s[Len(s)]) THEN R(SubSeq(s, 1, Len(s) - 1)) ELSE s
  IN R(L(u))

\* The entries a URL list may hold at position j: an empty or a blank entry,
\* or a URL: "a" at the odd positions, "b" with a blank before and after it
\* at the even ones.
RawUrls(j) ==
  { << >>, << " " >>, IF j % 2 = 1 THEN << "a" >> ELSE << " ", "b", " " >> }

\* str.lower() of a piece of a URL
Lower(c) ==
  IF c \in { "MAXHEALTHCARE.IN/DOCTOR/", "MaxHealthcare.in/doctor/" }
    THEN "maxhealthcare.in/doctor/" ELSE c

\* 'maxhealthcare.in/doctor/' in url_lower
IsSiteUrl(u) == \E j \in 1..Len(u) : Lower(u[j]) = "maxhealthcare.in/doctor/"

\* re.search(r'/doctor/([^/?#]+)', url) on the URL as given: << >> for no
\* match, << slug >> for the piece that follows '/doctor/'.
Slug(u) ==
  LET js == { j \in 1..Len(u) - 1 :
                u[j] \in { "maxhealthcare.in/doctor/", "MaxHealthcare.in/doctor/" } }
  IN IF js = {} THEN << >>
     ELSE << u[(CHOOSE j \in js : \A k \in js : j <= k) + 1] >>

\* ------------------------------------------------------------------ pages
\* What BeautifulSoup(html, 'html.parser') exposes of a fetched page:
\*   title   - << >> or << text >>: the text of the <title> element
\*   jsonld  - the <script type="application/ld+json"> blocks, in order
\*   nextraw - the <script id="__NEXT_DATA__">: "ok" when it parses to an
\*             object with an object under 'props', else "invalid", "shape"
\*             or "deep"
\*   nextdata- the lengths of the strings extract_nextdata collects
\*   metas   - the <meta> elements, in order
\*   main    - the h1..h5/p/li/... elements inside <main>, in order
\*   rest    - the same elements of <body> outside <main>
\*   loose   - the lengths of body text lines outside those elements
\* An element is [tag, txt, n]: txt names its whitespace-normalised text
\* (equal txt means equal text) and n is that text's length.
El(tag, txt, n) == [tag |-> tag, txt |-> txt, n |-> n]

Elements(page) == page.main \o page.rest

\* soup.find('h1'): the first h1 of the document, << >> when there is none
FindH1(page) ==
  LET hs == SelectSeq(Elements(page), LAMBDA e : e.tag = "h1")
  IN IF hs = << >> THEN << >> ELSE << Head(hs) >>

\* soup.find('title')
FindTitle(page) == page.title

\* ------------------------------------------------------------- extractors
ProfileTypes ==
  { "Physician", "Person", "MedicalBusiness", "LocalBusiness", "Hospital",
    "MedicalOrganization", "IndividualPhysician" }

\* The labelled lines of one JSON-LD item of a profile type.  name is << >>
\* or << value >>; desc is the length of its description; more is the total
\* length of its further labelled lines (Title:, Specialty:, ...), which the
\* code appends the same way.
JsonldParts(item) ==
  (IF item.name # << >>
     THEN << Txt("name", item.name, 6 + Len(item.name[1])) >> ELSE << >>)
  \o (IF item.desc > 0
     THEN << Txt("lit", << "Description: " >>, 13) \o Txt("ld", << "desc" >>, item.desc) >>
     ELSE << >>)
  \o (IF item.more > 0 THEN << Txt("ld", << "more" >>, item.more) >> ELSE << >>)

\* The roots a block's JSON may have: the item itself, a list or an object
\* with an '@graph' list holding the item, and the shapes that hold no item:
\* a string or number, an '@graph' that is a number (iterating it raises
\* TypeError) or an object (iterating it gives its keys, which are no dicts).
ItemRoots == { "object", "list", "graph" }

ShapeRoots == { "scalar", "graph-number", "graph-object" }

\* The text one JSON-LD script block contributes: << >> or << text >>.
\* A block that does not parse raises JSONDecodeError inside the try and is
\* skipped; a root that holds no item gives nothing.
JsonldBlock(item) ==
  IF ~item.parses \/ item.root \in ShapeRoots THEN << >>
  ELSE IF item.type \in ProfileTypes
    THEN (IF JsonldParts(item) # << >> THEN << Join(JsonldParts(item), NL(1)) >> ELSE << >>)
  ELSE IF item.desc > MinDescLen
    THEN << Txt("lit", << "[type] name: " >>,
                2 + Len(item.type) + 1 + (IF item.name # << >> THEN Len(item.name[1]) ELSE 0) + 2)
            \o Txt("ld", << "desc" >>, item.desc) >>
  ELSE << >>

RECURSIVE JsonldTexts(_)
JsonldTexts(blocks) ==
  IF blocks = << >> THEN << >>
  ELSE JsonldBlock(Head(blocks)) \o JsonldTexts(Tail(blocks))

extract_jsonld(page) == Join(JsonldTexts(page.jsonld), NL(2))

\* json.loads raises RecursionError on a block nested deeper than the
\* interpreter's recursion limit, closed or not; the except clause names
\* JSONDecodeError, TypeError and AttributeError only, so extract_jsonld
\* raises.
JsonldRaises(page) == \E j \in 1..Len(page.jsonld) : page.jsonld[j].deep

\* The strings the walk over __NEXT_DATA__ collected, one per line; '' for
\* a script that is not JSON ("invalid") or whose root or 'props' is no
\* object ("shape": .get raises AttributeError).
extract_nextdata(page) ==
  IF page.nextraw # "ok" THEN << >>
  ELSE Join([j \in 1..Len(page.nextdata) |-> Txt("next", << >>, page.nextdata[j])], NL(1))

\* json.loads raises RecursionError, which extract_nextdata does not catch
NextdataRaises(page) == page.nextraw = "deep"

MetaLabel(name) ==
  CASE name = "keywords" -> "Keywords"
    [] name = "og:title" -> "Title"
    [] OTHER -> "Description"

MetaNames ==
  { "description", "keywords", "og:description", "og:title",
    "twitter:description", "dc.description" }

RECURSIVE MetaParts(_, _)
MetaParts(metas, seen) ==
  IF metas = << >> THEN << >>
  ELSE LET m == Head(metas)
       IN IF m.name \in MetaNames /\ m.n > MinMetaLen /\ m.content \notin seen
            THEN << Txt("lit", << MetaLabel(m.name) >>, Len(MetaLabel(m.name)) + 4)
                    \o Txt("meta", << m.content >>, m.n) >>
                 \o MetaParts(Tail(metas), seen \cup {m.content})
            ELSE MetaParts(Tail(metas), seen)

extract_meta_tags(page) == Join(MetaParts(page.metas, {}), NL(1))

RECURSIVE SumLen(_)
SumLen(els) == IF els = << >> THEN 0 ELSE Head(els).n + SumLen(Tail(els))

\* The content container: <main> when it holds more than 150 characters of
\* text, otherwise the whole body.
ContentElements(page) ==
  IF page.main # << >> /\ SumLen(page.main) > ContainerMin
    THEN page.main ELSE Elements(page)

SemanticFormat(e) ==
  CASE e.tag \in {"h1", "h2", "h3", "h4", "h5"} ->
         NL(1) \o Txt("lit", << "## " >>, 3) \o Txt("el", << e.txt >>, e.n)
    [] e.tag = "li" -> Txt("bullet", << e.txt >>, 2) \o Txt("el", << e.txt >>, e.n)
    [] e.tag = "dt" ->
         NL(1) \o Txt("lit", << "**" >>, 2) \o Txt("el", << e.txt >>, e.n)
         \o Txt("lit", << "**" >>, 2)
    [] e.tag = "dd" -> Txt("sp", << >>, 2) \o Txt("el", << e.txt >>, e.n)
    [] OTHER -> Txt("el", << e.txt >>, e.n)

RECURSIVE SemanticParts(_, _)
SemanticParts(els, seen) ==
  IF els = << >> THEN << >>
  ELSE LET e == Head(els)
       IN IF e.n < MinElementLen \/ e.txt \in seen
            THEN SemanticParts(Tail(els), seen)
            ELSE << SemanticFormat(e) >> \o SemanticParts(Tail(els), seen \cup {e.txt})

extract_semantic_content(page) ==
  Join(SemanticParts(ContentElements(page), {}), NL(1))

\* The lines of body.get_text(separator='\n'): one per element, then the
\* loose lines; a line is [n, bullet], bullet meaning it starts with one of
\* the list markers.
BodyLines(page) ==
  [j \in 1..Len(Elements(page)) |-> [n |-> Elements(page)[j].n, bullet |-> FALSE]]
  \o page.loose

\* Mutant: a line of 10 characters is long enough.
extract_body_text_from_ten(page) ==
  LET kept == SelectSeq(BodyLines(page),
                        LAMBDA l : l.n > 0 /\ (l.n >= MinBodyLineLen \/ l.bullet))
  IN Join([j \in 1..Len(kept) |-> Txt("body", << >>, kept[j].n)], NL(1))

extract_body_text(page) ==
  LET kept == SelectSeq(BodyLines(page),
                        LAMBDA l : l.n > 0 /\ (l.n > MinBodyLineLen \/ l.bullet))
  IN Join([j \in 1..Len(kept) |-> Txt("body", << >>, kept[j].n)], NL(1))

\* ------------------------------------------------------ scrape_single_url
\* What scrape_single_url returns: none is Python's None; method = "" and
\* error = << >> stand for a dict without that key.
Result(text, title, method, error) ==
  [none |-> FALSE, text |-> text, title |-> title, method |-> method, error |-> error]

NoneResult == [none |-> TRUE, text |-> << >>, title |-> "", method |-> "", error |-> << >>]

\* No return: the call ends with the exception an extractor let through.
Raised ==
  [none |-> TRUE, text |-> << >>, title |-> "", method |-> "",
   error |-> << "RecursionError" >>]

PageHeader(title) == Txt("page", << title >>, 8 + Len(title))

FailureNote == Txt("fail", << >>, 160)

\* Mutant: the semantic content is never added to an accepted result.
SupplementNever(semantic_text) == << >>

\* combined += f"\n\n--- Page Content ---\n{semantic_text}", for a semantic
\* text of more than 100 characters
Supplement(semantic_text) ==
  IF TextLen(semantic_text) > SupplementMin
    THEN NL(2) \o Txt("lit", << "--- Page Content ---" >>, 20) \o NL(1) \o semantic_text
    ELSE << >>

\* Strategies 1..5 and the failure result, as nested under `elif title_tag:`.
Strategies(page, title) ==
  LET jsonld_text == extract_jsonld(page)
      nextdata_text == extract_nextdata(page)
      meta_text == extract_meta_tags(page)
      semantic_text == extract_semantic_content(page)
      body_text == extract_body_text(page)
      supplement == Supplement(semantic_text)
      with_meta ==
        PageHeader(title) \o NL(1)
        \o (IF meta_text # << >> THEN NL(1) \o meta_text \o NL(1) ELSE << >>)
        \o NL(1)
  IN IF JsonldRaises(page) THEN Raised
     ELSE IF TextLen(jsonld_text) > JsonldMin
       THEN Result(Take(PageHeader(title) \o NL(2)
                        \o Txt("lit", << "--- Structured Data ---" >>, 23) \o NL(1)
                        \o jsonld_text \o supplement, ResultCap),
                   title, "json-ld", << >>)
     ELSE IF NextdataRaises(page) THEN Raised
     ELSE IF TextLen(nextdata_text) > NextdataMin
       THEN Result(Take(PageHeader(title) \o NL(2)
                        \o Txt("lit", << "--- Next.js Data ---" >>, 20) \o NL(1)
                        \o nextdata_text \o supplement, ResultCap),
                   title, "nextjs-data", << >>)
     ELSE IF TextLen(semantic_text) > SemanticMin
       THEN Result(Take(with_meta \o semantic_text, ResultCap), title, "semantic", << >>)
     ELSE IF TextLen(body_text) > BodyMin
       THEN Result(Take(with_meta \o body_text, ResultCap), title, "body-text", << >>)
     ELSE IF meta_text # << >>
       THEN Result(PageHeader(title) \o NL(2) \o meta_text, title, "meta-only", << >>)
     ELSE Result(PageHeader(title) \o NL(2) \o FailureNote, title, "",
                 << "JavaScript-rendered page - use manual input" >>)

\* The part of scrape_single_url after a successful fetch.  The strategy
\* chain is indented under `elif title_tag:`, so a page with an h1, or with
\* neither h1 nor <title>, falls off the end of the function: None.
ParseAndExtract(page) ==
  IF FindH1(page) # << >> THEN NoneResult
  ELSE IF FindTitle(page) # << >> THEN Strategies(page, FindTitle(page)[1])
  ELSE NoneResult

\* The result when no header set fetched the page.
FetchFailed(last_error) ==
  Result(<< >>, "", "",
         IF last_error # << >> THEN last_error ELSE << "Could not fetch page" >>)

\* ---------------------------------------------------- scrape_max_healthcare
\* title or slug, title being the text of the first h1
SiteTitle(page, slug) ==
  IF FindH1(page) # << >> /\ FindH1(page)[1].n > 0 THEN FindH1(page)[1].txt ELSE slug

\* What one pass of `for headers in headers_options` returns for a fetched
\* page: the result of the first approach that accepts, NoneResult when the
\* pass falls through to the next header set, as it does when an extractor
\* raises (except Exception: continue).
SiteStrategies(page, slug) ==
  LET nextdata == extract_nextdata(page)
      jsonld == extract_jsonld(page)
      semantic == extract_semantic_content(page)
      meta == extract_meta_tags(page)
      body == extract_body_text(page)
      title == SiteTitle(page, slug)
  IN IF NextdataRaises(page) THEN NoneResult
     ELSE IF TextLen(nextdata) > NextdataMin
       THEN Result(PageHeader(title) \o NL(2)
                   \o Txt("lit", << "--- Max Healthcare Profile ---" >>, 30) \o NL(1)
                   \o nextdata,
                   title, "max-nextjs", << >>)
     ELSE IF JsonldRaises(page) THEN NoneResult
     ELSE IF TextLen(jsonld) > JsonldMin
       THEN Result(Take(PageHeader(title) \o NL(2)
                        \o Txt("lit", << "--- Structured Data ---" >>, 23) \o NL(1)
                        \o jsonld
                        \o (IF TextLen(semantic) > SupplementMin
                              THEN NL(2) \o Txt("lit", << "--- Page Content ---" >>, 20)
                                   \o NL(1) \o semantic
                              ELSE << >>),
                        ResultCap),
                   title, "max-jsonld", << >>)
     ELSE IF TextLen(semantic) > SemanticMin
       THEN Result(Take(PageHeader(title) \o NL(1)
                        \o (IF meta # << >> THEN NL(1) \o meta \o NL(1) ELSE << >>)
                        \o NL(1) \o semantic,
                        ResultCap),
                   title, "max-semantic", << >>)
     ELSE IF TextLen(body) > SiteBodyMin
       THEN Result(Take(PageHeader(slug) \o NL(2) \o body, ResultCap),
                   slug, "max-body", << >>)
     ELSE NoneResult

\* Approach 2, the cached copy: semantic content, or body text when there
\* is no semantic content at all.
CacheResult(page, slug) ==
  LET semantic == extract_semantic_content(page)
      content == IF semantic # << >> THEN semantic ELSE extract_body_text(page)
  IN IF TextLen(content) > CacheMin
       THEN Result(Take(Txt("page", << slug, "(Google Cache)" >>, 8 + Len(slug) + 15)
                        \o NL(2) \o content, ResultCap),
                   slug, "google-cache", << >>)
       ELSE NoneResult

\* ------------------------------------------------------------- universes
\* Titles and texts of the modelled pages.
P(n) == El("p", "para", n)

Profile(name, desc) ==
  [parses |-> TRUE, deep |-> FALSE, root |-> "object", type |-> "Physician",
   name |-> name, desc |-> desc, more |-> 0]

Page(title, jsonld, metas, main, rest) ==
  [title |-> title, jsonld |-> jsonld, nextraw |-> "ok", nextdata |-> << >>,
   metas |-> metas, main |-> main, rest |-> rest, loose |-> << >>]

ListItems ==
  << El("li", "item one", 30), El("li", "item one", 30), El("li", "item two", 40) >>

\* The pages a fetch may return.
Pages ==
  { \* nothing but a <title>: no strategy accepts
    Page(<< "Dr A" >>, << >>, << >>, << >>, << >>),
    \* neither <title> nor h1
    Page(<< >>, << >>, << >>, << >>, << P(300) >>),
    \* a JSON-LD profile with a name, no h1
    Page(<< "Dr A" >>, << Profile(<< "Dr A" >>, 300) >>, << >>, << >>, << >>),
    \* the same profile on a page with an h1
    Page(<< "Dr A" >>, << Profile(<< "Dr A" >>, 300) >>, << >>,
         << El("h1", "Dr A", 4) >>, << >>),
    \* a <main> of paragraph and list text, no h1
    Page(<< "Dr A" >>, << >>, << >>, << P(200) >> \o ListItems, << >>),
    \* the same <main> under an h1
    Page(<< "Dr A" >>, << >>, << >>,
         << El("h1", "Dr A", 4), P(200) >> \o ListItems, << >>),
    \* a long page: the result is cut at the per-result cap
    Page(<< "Dr A" >>, << >>, << >>, << P(9000) >>, << >>),
    \* only a short meta description: a meta-only text of 50 characters
    Page(<< "Dr A" >>, << >>,
         << [name |-> "description", content |-> "about", n |-> 21] >>, << >>, << >>) }

\* manual_text as pasted: empty, blank, short with surrounding blanks, long
ManualTexts ==
  { << >>,
    Txt("sp", << >>, 3),
    Txt("sp", << >>, 2) \o Txt("manual", << >>, 20) \o NL(1),
    Txt("manual", << >>, 16000) }

UrlLists ==
  UNION { { l \in [1..n -> UNION { RawUrls(j) : j \in 1..n }] :
              \A j \in 1..n : l[j] \in RawUrls(j) } : n \in 0..MaxUrls }

\* ------------------------------------------------------------------ state
VARIABLES
  urls,             \* argument of scrape_multiple_urls
  manual_text,      \* argument of scrape_multiple_urls
  pc,               \* "loop", "site", "cache", "fetch", "done", "raised"
  i,                \* entries of urls already taken by the for loop
  url,              \* the stripped URL being scraped
  attempt,          \* header sets already tried by scrape_single_url
  last_error,       \* scrape_single_url's last_error
  html,             \* << >> or << page >>: the page the latest call fetched
  data,             \* << >> or << result >>: what the latest call returned
  all_sections, successful_urls, all_titles, errors,
  result,           \* << >> before the return, then << None or the dict >>
  calls,            \* history: the URLs handed to scrape_single_url, in order
  returned,         \* history: what each of those calls returned, in order
  fetched,          \* history: << >> or << page >>, what each call fetched
  web               \* the pages the servers may answer a request with

\* The web application (app.py): the session and the request in hand.
VARIABLES
  session,          \* << >> or << user >>: session['user']
  request,          \* << >> or << the latest request >>
  response,         \* << >> or << the response to it >>
  effects,          \* the calls the handler of the latest request made, in order
  events            \* requests handled so far

\* extract_nextdata, from the parsed payload on.
VARIABLES
  props,            \* data['props']['pageProps']
  wpc,              \* "root" (before the walk), "walk", "unique", "done"
  stack,            \* the calls of extract_strings still to run, the next first
  parts,            \* the strings collected so far
  visits,           \* history: the paths extract_strings was called on
  output            \* << >> or << the lines returned >>

\* The table generator_prompts and the call of db_connector.py in hand.
VARIABLES
  generator_prompts, \* the committed rows, in the order of their insertion
  prompts_id_seq,    \* the last value the SERIAL column id has drawn
  dpc,               \* "boot" (no table yet), "idle", or the statement the
                     \* call in hand is at
  work,              \* the rows as the open transaction sees them
  save_args,         \* << >> or << the arguments of the call in hand >>
  saved,             \* << >> or << the latest call of save_prompt, returned >>
  db_calls           \* calls made so far

\* build_prompt: its arguments and what it returned.
VARIABLES
  prompt_template, scraped_data, treatment_dict,
  final_prompt       \* << >> or << the text returned >>

scraperVars ==
  << urls, manual_text, pc, i, url, attempt, last_error, html, data,
     all_sections, successful_urls, all_titles, errors, result, calls,
     returned, fetched, web >>

appVars == << session, request, response, effects, events >>

walkVars == << props, wpc, stack, parts, visits, output >>

dbVars ==
  << generator_prompts, prompts_id_seq, dpc, work, save_args,
     saved, db_calls >>

promptVars == << prompt_template, scraped_data, treatment_dict, final_prompt >>

vars == << scraperVars, appVars, walkVars, dbVars, promptVars >>

\* No call of db_connector.py has been made.
DbIdle ==
  /\ generator_prompts = << >>
  /\ prompts_id_seq = 0
  /\ dpc = "boot"
  /\ work = << >>
  /\ save_args = << >>
  /\ saved = << >>
  /\ db_calls = 0

\* No prompt is being built.
PromptIdle ==
  /\ prompt_template = << >>
  /\ scraped_data = << >>
  /\ treatment_dict = << >>
  /\ final_prompt = << >>

\* No request has been made.
AppIdle ==
  /\ session = << >>
  /\ request = << >>
  /\ response = << >>
  /\ effects = << >>
  /\ events = 0

\* No payload is being walked.
WalkIdle ==
  /\ props = << >>
  /\ wpc = "done"
  /\ stack = << >>
  /\ parts = << >>
  /\ visits = << >>
  /\ output = << >>

Init ==
  /\ urls \in UrlLists
  /\ manual_text \in ManualTexts
  /\ pc = "loop"
  /\ i = 0
  /\ url = << >>
  /\ attempt = 0
  /\ last_error = << >>
  /\ html = << >>
  /\ data = << >>
  /\ all_sections = << >>
  /\ successful_urls = << >>
  /\ all_titles = << >>
  /\ errors = << >>
  /\ result = << >>
  /\ calls = << >>
  /\ returned = << >>
  /\ fetched = << >>
  /\ web = Pages
  /\ AppIdle
  /\ WalkIdle
  /\ DbIdle
  /\ PromptIdle

\* --------------------------------------------------- scrape_multiple_urls
\* for i, url in enumerate(urls): a blank entry is skipped
SkipBlank ==
  /\ pc = "loop" /\ i < Len(urls)
  /\ UNCHANGED << appVars, walkVars, dbVars, promptVars >>
  /\ UrlStrip(urls[i + 1]) = << >>
  /\ i' = i + 1
  /\ UNCHANGED << urls, manual_text, pc, url, attempt, last_error, html, data,
                  all_sections, successful_urls, all_titles, errors, result, calls,
                  returned, fetched, web >>

\* try_site_specific_api calls scrape_max_healthcare for a URL of the site,
\* which goes on to its requests when the URL has a doctor slug and returns
\* None at once otherwise.
EntersSite(u) == IsSiteUrl(u) /\ Slug(u) # << >>

\* data = scrape_single_url(url, agent_index=i): the call, up to the first
\* request: of the site-specific override for a URL that enters it, of the
\* fetch loop otherwise.  agent_index only picks the first header set's
\* User-Agent.
Call ==
  /\ pc = "loop" /\ i < Len(urls)
  /\ UNCHANGED << appVars, walkVars, dbVars, promptVars >>
  /\ UrlStrip(urls[i + 1]) # << >>
  /\ url' = UrlStrip(urls[i + 1])
  /\ calls' = Append(calls, UrlStrip(urls[i + 1]))
  /\ attempt' = 0
  /\ last_error' = << >>
  /\ html' = << >>
  /\ data' = << >>
  /\ pc' = IF EntersSite(UrlStrip(urls[i + 1])) THEN "site" ELSE "fetch"
  /\ UNCHANGED << urls, manual_text, i, all_sections, successful_urls,
                  all_titles, errors, result, returned, fetched, web >>

SourceMarker(u) == Txt("source", u, 12 + Len(u) + 4)

\* data.get('error', 'No content extracted') if data else 'Request failed'
ErrorMsg(d) ==
  IF d.none THEN << "Request failed" >>
  ELSE IF d.error # << >> THEN d.error ELSE << "No content extracted" >>

\* Mutant: the threshold taken as "at least 50".
IsSuccessAtLeast(d) ==
  ~d.none /\ d.text # << >> /\ TextLen(Strip(d.text)) >= MinSuccessLen

\* if data and data.get('text') and len(data['text'].strip()) > 50
IsSuccess(d) == ~d.none /\ d.text # << >> /\ TextLen(Strip(d.text)) > MinSuccessLen

\* Mutant: the section is appended before the success test, for every URL.
ReturnSectionAlways(d) ==
  /\ data' = << d >>
  /\ returned' = Append(returned, d)
  /\ fetched' = Append(fetched, html')
  /\ attempt' = 0
  /\ last_error' = << >>
  /\ all_sections' = Append(all_sections, SourceMarker(url) \o NL(1) \o d.text)
  /\ IF IsSuccess(d)
       THEN /\ all_titles' = Append(all_titles, d.title)
            /\ successful_urls' = Append(successful_urls, url)
            /\ errors' = errors
       ELSE /\ errors' = Append(errors, [url |-> url, msg |-> ErrorMsg(d)])
            /\ UNCHANGED << all_titles, successful_urls >>
  /\ i' = i + 1
  /\ pc' = "loop"

\* Mutant: a failed URL ends the loop.
ReturnAbortOnFailure(d) ==
  /\ data' = << d >>
  /\ returned' = Append(returned, d)
  /\ fetched' = Append(fetched, html')
  /\ attempt' = 0
  /\ last_error' = << >>
  /\ IF IsSuccess(d)
       THEN /\ all_sections' = Append(all_sections, SourceMarker(url) \o NL(1) \o d.text)
            /\ all_titles' = Append(all_titles, d.title)
            /\ successful_urls' = Append(successful_urls, url)
            /\ errors' = errors
            /\ i' = i + 1
       ELSE /\ errors' = Append(errors, [url |-> url, msg |-> ErrorMsg(d)])
            /\ UNCHANGED << all_sections, all_titles, successful_urls >>
            /\ i' = Len(urls)
  /\ pc' = "loop"

\* scrape_single_url returns d (its locals, the loop index and last_error,
\* end with the call) and the loop body of scrape_multiple_urls takes it: a
\* section, a title and a successful URL, or an error entry.
Return(d) ==
  /\ data' = << d >>
  /\ returned' = Append(returned, d)
  /\ fetched' = Append(fetched, html')
  /\ attempt' = 0
  /\ last_error' = << >>
  /\ IF IsSuccess(d)
       THEN /\ all_sections' = Append(all_sections, SourceMarker(url) \o NL(1) \o d.text)
            /\ all_titles' = Append(all_titles, d.title)
            /\ successful_urls' = Append(successful_urls, url)
            /\ errors' = errors
       ELSE /\ errors' = Append(errors, [url |-> url, msg |-> ErrorMsg(d)])
            /\ UNCHANGED << all_sections, all_titles, successful_urls >>
  /\ i' = i + 1
  /\ pc' = "loop"

\* scrape_single_url raises, and with it scrape_multiple_urls, which calls
\* it outside any try: nothing is returned.
Raise ==
  /\ pc' = "raised"
  /\ fetched' = Append(fetched, html')
  /\ UNCHANGED << data, returned, attempt, last_error, i, all_sections,
                  successful_urls, all_titles, errors >>

\* last_error after a failed attempt: f'HTTP {status} (attempt {i+1})',
\* f'Timeout (attempt {i+1})', or str(e)[:100] of another exception, which
\* may be empty.
FetchErrors(a) == { << "HTTP 403", a + 1 >>, << "Timeout", a + 1 >>, << >> }

\* Mutant: a failed attempt is made again with the same header set.
FetchRetrySameHeaders ==
  /\ pc = "fetch" /\ attempt < NumHeaderSets
  /\ UNCHANGED << appVars, walkVars, dbVars, promptVars >>
  /\ UNCHANGED << urls, manual_text, url, html, result, calls, web >>
  /\ \E e \in FetchErrors(attempt) :
       /\ last_error' = e
       /\ attempt' = attempt
       /\ UNCHANGED << data, pc, i, all_sections, successful_urls,
                       all_titles, errors, returned, fetched >>

\* One pass of `for i, headers in enumerate(header_sets)` that does not end
\* the loop: a response that is not a 200 with more than 500 characters, a
\* timeout, or another exception; after the last header set the call returns.
FetchRetry ==
  /\ pc = "fetch" /\ attempt < NumHeaderSets
  /\ UNCHANGED << appVars, walkVars, dbVars, promptVars >>
  /\ UNCHANGED << urls, manual_text, url, html, result, calls, web >>
  /\ \E e \in FetchErrors(attempt) :
       IF attempt + 1 = NumHeaderSets
         THEN Return(FetchFailed(e))
         ELSE /\ last_error' = e
              /\ attempt' = attempt + 1
              /\ UNCHANGED << data, pc, i, all_sections, successful_urls,
                              all_titles, errors, returned, fetched >>

\* Mutant: a connection error is taken like a timeout, the loop going on
\* to the next header set.
FetchConnectionErrorRetries ==
  /\ pc = "fetch" /\ attempt < NumHeaderSets
  /\ UNCHANGED << appVars, walkVars, dbVars, promptVars >>
  /\ UNCHANGED << urls, manual_text, url, html, result, calls, web >>
  /\ IF attempt + 1 = NumHeaderSets
       THEN Return(FetchFailed(<< "Connection failed" >>))
       ELSE /\ last_error' = << "Connection failed" >>
            /\ attempt' = attempt + 1
            /\ UNCHANGED << data, pc, i, all_sections, successful_urls,
                            all_titles, errors, returned, fetched >>

\* requests.exceptions.ConnectionError: break, and the call returns
FetchConnectionError ==
  /\ pc = "fetch" /\ attempt < NumHeaderSets
  /\ UNCHANGED << appVars, walkVars, dbVars, promptVars >>
  /\ UNCHANGED << urls, manual_text, url, html, result, calls, web >>
  /\ Return(FetchFailed(<< "Connection failed" >>))

\* Mutant: what the extractors have seen outlives the call, so a page that
\* an earlier URL of the batch fetched yields nothing the second time.
FetchOkSeenOutlivesCall ==
  /\ pc = "fetch" /\ attempt < NumHeaderSets
  /\ UNCHANGED << appVars, walkVars, dbVars, promptVars >>
  /\ \E page \in web :
       /\ html' = << page >>
       /\ Return(IF \E j \in 1..Len(fetched) : fetched[j] = << page >>
                   THEN NoneResult ELSE ParseAndExtract(page))
  /\ UNCHANGED << urls, manual_text, url, result, calls, web >>

\* status 200 with more than 500 characters: break; the page is parsed, the
\* strategies run and the call returns
FetchOk ==
  /\ pc = "fetch" /\ attempt < NumHeaderSets
  /\ UNCHANGED << appVars, walkVars, dbVars, promptVars >>
  /\ \E page \in web :
       /\ html' = << page >>
       /\ IF ParseAndExtract(page) = Raised
            THEN Raise
            ELSE Return(ParseAndExtract(page))
  /\ UNCHANGED << urls, manual_text, url, result, calls, web >>

\* scrape_max_healthcare goes on without a result: to the next of
\* headers_options, to the cached copy after the last of them (to = "cache"),
\* or, returning None, to the fetch loop of scrape_single_url (to = "fetch").
SiteGoOn(to) ==
  /\ pc' = to
  /\ attempt' = IF to = "site" THEN attempt + 1 ELSE 0
  /\ UNCHANGED << last_error, html, data, i, all_sections, successful_urls,
                  all_titles, errors, returned, fetched >>

SiteNext == IF attempt + 1 = NumSiteHeaderSets THEN "cache" ELSE "site"

\* One pass of `for headers in headers_options` without a page: the answer
\* is not a 200 with more than 1000 characters, or the request raises.
SiteFail ==
  /\ pc = "site" /\ attempt < NumSiteHeaderSets
  /\ UNCHANGED << appVars, walkVars, dbVars, promptVars >>
  /\ UNCHANGED << urls, manual_text, url, result, calls, web >>
  /\ SiteGoOn(SiteNext)

\* Mutant: the override's result is dropped and the fetch loop runs.
SitePageThenGeneric ==
  /\ pc = "site" /\ attempt < NumSiteHeaderSets
  /\ UNCHANGED << appVars, walkVars, dbVars, promptVars >>
  /\ UNCHANGED << urls, manual_text, url, result, calls, web >>
  /\ \E page \in web :
       LET site_result == SiteStrategies(page, Slug(url)[1])
       IN IF site_result.none THEN SiteGoOn(SiteNext) ELSE SiteGoOn("fetch")

\* One pass with a page: the first approach that accepts gives the result
\* of scrape_max_healthcare, which scrape_single_url returns when its text
\* is longer than 100 characters; no approach accepting, the loop goes on.
SitePage ==
  /\ pc = "site" /\ attempt < NumSiteHeaderSets
  /\ UNCHANGED << appVars, walkVars, dbVars, promptVars >>
  /\ UNCHANGED << urls, manual_text, url, result, calls, web >>
  /\ \E page \in web :
       LET site_result == SiteStrategies(page, Slug(url)[1])
       IN IF site_result.none THEN SiteGoOn(SiteNext)
          ELSE IF TextLen(site_result.text) > SiteMin
            THEN html' = << page >> /\ Return(site_result)
          ELSE SiteGoOn("fetch")

\* The request for the cached copy gives no page: None, and on to the
\* fetch loop.
CacheFail ==
  /\ pc = "cache"
  /\ UNCHANGED << appVars, walkVars, dbVars, promptVars >>
  /\ UNCHANGED << urls, manual_text, url, result, calls, web >>
  /\ SiteGoOn("fetch")

\* The cached copy is fetched.
CachePage ==
  /\ pc = "cache"
  /\ UNCHANGED << appVars, walkVars, dbVars, promptVars >>
  /\ UNCHANGED << urls, manual_text, url, result, calls, web >>
  /\ \E page \in web :
       LET site_result == CacheResult(page, Slug(url)[1])
       IN IF ~site_result.none /\ TextLen(site_result.text) > SiteMin
            THEN html' = << page >> /\ Return(site_result)
            ELSE SiteGoOn("fetch")

ManualMarker == Txt("manualmark", << >>, 37)

\* Mutant: the manual text is tested without strip().
HasManualUnstripped == manual_text # << >>

\* if manual_text and manual_text.strip()
HasManual == manual_text # << >> /\ Strip(manual_text) # << >>

\* Mutant: the manual text is appended as pasted, not stripped.
SectionsUnstripped ==
  IF HasManual
    THEN Append(all_sections, ManualMarker \o NL(1) \o manual_text)
    ELSE all_sections

\* Mutant: the manual section is put before the URL sections.
SectionsManualFirst ==
  IF HasManual
    THEN << ManualMarker \o NL(1) \o Strip(manual_text) >> \o all_sections
    ELSE all_sections

\* The sections with the manual one appended.
Sections ==
  IF HasManual
    THEN Append(all_sections, ManualMarker \o NL(1) \o Strip(manual_text))
    ELSE all_sections

Combined == Join(Sections, NL(2))

\* Mutant: total_chars is measured after the cut.
BatchResultCutTotal(combined_text) ==
  [none |-> FALSE,
   urls |-> successful_urls,
   url_count |-> Len(successful_urls),
   combined_text |-> Take(combined_text, BatchCap),
   titles |-> SelectSeq(all_titles, LAMBDA t : t # ""),
   errors |-> errors,
   has_manual_text |-> HasManual,
   total_chars |-> TextLen(Take(combined_text, BatchCap))]

\* Mutant: 'titles' is all_titles as recorded, empty titles included.
BatchResultAllTitles(combined_text) ==
  [none |-> FALSE,
   urls |-> successful_urls,
   url_count |-> Len(successful_urls),
   combined_text |-> Take(combined_text, BatchCap),
   titles |-> all_titles,
   errors |-> errors,
   has_manual_text |-> HasManual,
   total_chars |-> TextLen(combined_text)]

\* The dict scrape_multiple_urls returns for the joined text.
BatchResult(combined_text) ==
  [none |-> FALSE,
   urls |-> successful_urls,
   url_count |-> Len(successful_urls),
   combined_text |-> Take(combined_text, BatchCap),
   titles |-> SelectSeq(all_titles, LAMBDA t : t # ""),
   errors |-> errors,
   has_manual_text |-> HasManual,
   total_chars |-> TextLen(combined_text)]

NoBatch ==
  [none |-> TRUE, urls |-> << >>, url_count |-> 0, combined_text |-> << >>,
   titles |-> << >>, errors |-> << >>, has_manual_text |-> FALSE, total_chars |-> 0]

\* After the loop: the manual section, the join, the return.
Finish ==
  /\ pc = "loop" /\ i = Len(urls)
  /\ UNCHANGED << appVars, walkVars, dbVars, promptVars >>
  /\ result' = << IF Strip(Combined) = << >> THEN NoBatch ELSE BatchResult(Combined) >>
  /\ pc' = "done"
  /\ UNCHANGED << urls, manual_text, i, url, attempt, last_error, html, data,
                  all_sections, successful_urls, all_titles, errors, calls,
                  returned, fetched, web >>

Next ==
  \/ SkipBlank
  \/ Call
  \/ FetchRetry
  \/ FetchConnectionError
  \/ FetchOk
  \/ Finish

Spec == Init /\ [][Next]_vars

\* ------------------------------------------------ a batch and its titles
\* Pages with an empty <title>, with two different titles, and with a
\* title on a page that gives too little text.
TitlePages ==
  { Page(<< "" >>, << >>, << >>, << P(300) >>, << >>),
    Page(<< "Dr A" >>, << Profile(<< "Dr A" >>, 300) >>, << >>, << >>, << >>),
    Page(<< "Dr B" >>, << >>, << >>, << P(300) >>, << >>),
    Page(<< "Dr C" >>, << >>,
         << [name |-> "description", content |-> "about", n |-> 21] >>, << >>, << >>) }

InitTitles ==
  /\ urls \in UrlLists
  /\ manual_text = << >>
  /\ pc = "loop"
  /\ i = 0
  /\ url = << >>
  /\ attempt = 0
  /\ last_error = << >>
  /\ html = << >>
  /\ data = << >>
  /\ all_sections = << >>
  /\ successful_urls = << >>
  /\ all_titles = << >>
  /\ errors = << >>
  /\ result = << >>
  /\ calls = << >>
  /\ returned = << >>
  /\ fetched = << >>
  /\ web = TitlePages
  /\ AppIdle
  /\ WalkIdle
  /\ DbIdle
  /\ PromptIdle

TitleSpec == InitTitles /\ [][Next]_vars

\* ------------------------------------------- one URL, the site's included
NextData(n) ==
  [title |-> << "Dr A" >>, jsonld |-> << >>, nextraw |-> "ok", nextdata |-> << n >>,
   metas |-> << >>, main |-> << >>, rest |-> << >>, loose |-> << >>]

LooseText(n) ==
  [title |-> << "Dr A" >>, jsonld |-> << >>, nextraw |-> "ok", nextdata |-> << >>,
   metas |-> << >>, main |-> << >>, rest |-> << >>,
   loose |-> << [n |-> n, bullet |-> FALSE] >>]

\* A block that would be the profile of 'Dr A' but for its JSON
BadBlock(parses, deep, root) ==
  [parses |-> parses, deep |-> deep, root |-> root, type |-> "Physician",
   name |-> << "Dr A" >>, desc |-> 300, more |-> 0]

\* A page of 300 characters of semantic content with the given JSON-LD
\* blocks and embedded payload
JsonPage(jsonld, nextraw) ==
  [title |-> << "Dr A" >>, jsonld |-> jsonld, nextraw |-> nextraw, nextdata |-> << 150 >>,
   metas |-> << >>, main |-> << P(300) >>, rest |-> << >>, loose |-> << >>]

\* The pages a request for a single URL may be answered with.
SinglePages ==
  { \* a block that is not JSON before a profile; blocks of unexpected roots
    JsonPage(<< BadBlock(FALSE, FALSE, "object"), Profile(<< "Dr A" >>, 300) >>, "ok"),
    JsonPage(<< BadBlock(TRUE, FALSE, "scalar"), BadBlock(TRUE, FALSE, "graph-number"),
                BadBlock(TRUE, FALSE, "graph-object") >>, "invalid"),
    JsonPage(<< BadBlock(TRUE, FALSE, "graph") >>, "shape"),
    \* a profile beside 50 characters of semantic content; a profile of
    \* 9000 characters
    [JsonPage(<< Profile(<< "Dr A" >>, 300) >>, "ok") EXCEPT !.main = << P(50) >>],
    JsonPage(<< Profile(<< "Dr A" >>, 9000) >>, "ok"),
    \* a block, and a payload, of 100000 opening brackets
    JsonPage(<< BadBlock(FALSE, TRUE, "list") >>, "ok"),
    JsonPage(<< >>, "deep"),
    \* nothing but a <title>
    Page(<< "Dr A" >>, << >>, << >>, << >>, << >>),
    \* a JSON-LD profile, without and with an h1
    Page(<< "Dr A" >>, << Profile(<< "Dr A" >>, 300) >>, << >>, << >>, << >>),
    Page(<< "Dr A" >>, << Profile(<< "Dr A" >>, 300) >>, << >>,
         << El("h1", "Dr A", 4) >>, << >>),
    \* an embedded payload of one string, short and long
    NextData(150),
    NextData(9000),
    \* semantic content, short and long
    Page(<< "Dr A" >>, << >>, << >>, << P(300) >>, << >>),
    Page(<< "Dr A" >>, << >>, << >>, << P(9000) >>, << >>),
    \* body text outside the semantic elements: 150 and 250 characters
    LooseText(150),
    LooseText(250),
    \* only a meta description, short and long
    Page(<< "Dr A" >>, << >>,
         << [name |-> "description", content |-> "about", n |-> 21] >>, << >>, << >>),
    Page(<< "Dr A" >>, << >>,
         << [name |-> "description", content |-> "bio", n |-> 9000] >>, << >>, << >>),
    \* a meta description under an h1; with semantic content; with body text
    Page(<< "Dr A" >>, << >>,
         << [name |-> "description", content |-> "about", n |-> 21] >>,
         << El("h1", "Dr A", 4) >>, << >>),
    Page(<< "Dr A" >>, << >>,
         << [name |-> "description", content |-> "about", n |-> 21] >>,
         << P(300) >>, << >>),
    [LooseText(150) EXCEPT
       !.metas = << [name |-> "description", content |-> "about", n |-> 21] >>] }

\* An ordinary URL, a doctor page of the site, the site's URL without a
\* slug, the doctor page's URL in capitals, and with capitals in the
\* domain only.
SingleUrls ==
  { << "c" >>,
    << "maxhealthcare.in/doctor/", "dr-x" >>,
    << "maxhealthcare.in/doctor/" >>,
    << "MAXHEALTHCARE.IN/DOCTOR/", "dr-x" >>,
    << "MaxHealthcare.in/doctor/", "dr-x" >> }

InitSingle ==
  /\ urls \in { << u >> : u \in SingleUrls }
  /\ manual_text = << >>
  /\ pc = "loop"
  /\ i = 0
  /\ url = << >>
  /\ attempt = 0
  /\ last_error = << >>
  /\ html = << >>
  /\ data = << >>
  /\ all_sections = << >>
  /\ successful_urls = << >>
  /\ all_titles = << >>
  /\ errors = << >>
  /\ result = << >>
  /\ calls = << >>
  /\ returned = << >>
  /\ fetched = << >>
  /\ web = SinglePages
  /\ AppIdle
  /\ WalkIdle
  /\ DbIdle
  /\ PromptIdle

NextSingle ==
  \/ Call
  \/ SiteFail
  \/ SitePage
  \/ CacheFail
  \/ CachePage
  \/ FetchRetry
  \/ FetchConnectionError
  \/ FetchOk
  \/ Finish

SingleSpec == InitSingle /\ [][NextSingle]_vars

\* The same, the call running on while it has a step: every request is made
\* with a timeout, and the code between the requests does not wait.
SingleLive == InitSingle /\ [][NextSingle]_vars /\ WF_vars(NextSingle)

\* ------------------------------------------------- pages of body lines
\* The most lines of body text on a page.
MaxLines == 3

\* A blank line, lines about the least length, a long line, and a short
\* line that starts with a list marker
LineKinds ==
  { [n |-> n, bullet |-> FALSE] :
      n \in { 0, MinBodyLineLen - 1, MinBodyLineLen, MinBodyLineLen + 1, 95 } }
  \cup { [n |-> MinBodyLineLen - 1, bullet |-> TRUE] }

LineSeqs ==
  UNION { [1..n -> LineKinds] : n \in 0..MaxLines }

\* Pages with nothing but a <title> and lines of text in the body
BodyPages ==
  { [title |-> << "Dr A" >>, jsonld |-> << >>, nextraw |-> "ok", nextdata |-> << >>,
     metas |-> << >>, main |-> << >>, rest |-> << >>, loose |-> ls] : ls \in LineSeqs }

InitBody ==
  /\ urls = << << "c" >> >>
  /\ manual_text = << >>
  /\ pc = "loop"
  /\ i = 0
  /\ url = << >>
  /\ attempt = 0
  /\ last_error = << >>
  /\ html = << >>
  /\ data = << >>
  /\ all_sections = << >>
  /\ successful_urls = << >>
  /\ all_titles = << >>
  /\ errors = << >>
  /\ result = << >>
  /\ calls = << >>
  /\ returned = << >>
  /\ fetched = << >>
  /\ web = BodyPages
  /\ AppIdle
  /\ WalkIdle
  /\ DbIdle
  /\ PromptIdle

NextBody ==
  \/ Call
  \/ FetchRetry
  \/ FetchConnectionError
  \/ FetchOk
  \/ Finish

BodySpec == InitBody /\ [][NextBody]_vars

\* ================================================================= app.py
\* Requests handled in one run of the model.
MaxEvents == 3

\* config.ADMIN_USERNAME and config.ADMIN_PASSWORD
AdminUsername == "admin@ginger.healthcare"

AdminPassword == "changeme"

\* The rows of the shared users table; password names the password that
\* bcrypt.checkpw accepts for the row's stored hash.
Users ==
  { [id |-> 1, email |-> "root@x", password |-> "pw1", role |-> "super_admin",
     is_active |-> TRUE],
    [id |-> 2, email |-> "ed@x", password |-> "pw2", role |-> "editor",
     is_active |-> TRUE],
    [id |-> 3, email |-> "viewer@x", password |-> "pw3", role |-> "viewer",
     is_active |-> TRUE],
    [id |-> 4, email |-> "gone@x", password |-> "pw4", role |-> "editor",
     is_active |-> FALSE] }

Emails == { AdminUsername, "root@x", "ed@x", "viewer@x", "gone@x", "nobody@x" }

Passwords == { AdminPassword, "pw1", "pw2", "pw3", "pw4" }

User(id, email, role, source) ==
  [id |-> id, email |-> email, role |-> role, source |-> source]

\* Mutant: the role of the row is not looked at.
authenticate_any_role(email, password, conn) ==
  IF email = AdminUsername /\ password = AdminPassword
    THEN << User(0, email, "super_admin", "env") >>
  ELSE IF ~conn THEN << >>
  ELSE LET rows == { u \in Users : u.email = email /\ u.is_active }
       IN IF rows = {} THEN << >>
          ELSE LET user == CHOOSE u \in rows : TRUE
               IN IF password = user.password
                    THEN << User(user.id, user.email, user.role, "db") >>
                    ELSE << >>

\* authenticate_user: << >> (None) or << user >>.  conn is whether get_conn
\* gave a connection.
authenticate_user(email, password, conn) ==
  IF email = AdminUsername /\ password = AdminPassword
    THEN << User(0, email, "super_admin", "env") >>
  ELSE IF ~conn THEN << >>
  ELSE LET rows == { u \in Users : u.email = email /\ u.is_active }
       IN IF rows = {} THEN << >>
          ELSE LET user == CHOOSE u \in rows : TRUE
               IN IF user.role \in {"super_admin", "editor"} /\ password = user.password
                    THEN << User(user.id, user.email, user.role, "db") >>
                    ELSE << >>

Req(route, email, password, req_urls, req_manual) ==
  [route |-> route, email |-> email, password |-> password,
   urls |-> req_urls, manual_text |-> req_manual]

\* The request is taken in hand.
Handle(req) ==
  /\ events < MaxEvents
  /\ events' = events + 1
  /\ request' = << req >>
  /\ UNCHANGED << scraperVars, walkVars, dbVars, promptVars >>

\* ran: the body of the route's handler ran, past its decorator.
Respond(status, kind, ran) ==
  response' = << [status |-> status, kind |-> kind, ran |-> ran] >>

Effect(call, res) == [call |-> call, result |-> res]

\* @login_required around a handler f
login_required(f) ==
  IF session = << >>
    THEN Respond(302, "redirect:login", FALSE) /\ effects' = << >> /\ UNCHANGED session
    ELSE f

\* @admin_required around a handler f
admin_required(f) ==
  IF session = << >>
    THEN Respond(302, "redirect:login", FALSE) /\ effects' = << >> /\ UNCHANGED session
  ELSE IF session[1].role # "super_admin"
    THEN Respond(403, "error:admin", FALSE) /\ effects' = << >> /\ UNCHANGED session
  ELSE f

\* POST /login
LoginPost ==
  \E email \in Emails, password \in Passwords, conn \in BOOLEAN :
    /\ Handle(Req("/login", email, password, << >>, << >>))
    /\ LET user == authenticate_user(email, password, conn)
       IN /\ effects' = << Effect("authenticate_user", IF user = << >> THEN "None" ELSE "user") >>
          /\ IF user # << >>
               THEN session' = user /\ Respond(302, "redirect:dashboard", TRUE)
               ELSE UNCHANGED session /\ Respond(200, "login.html:error", TRUE)

\* GET /logout
Logout ==
  /\ Handle(Req("/logout", "", "", << >>, << >>))
  /\ session' = << >>
  /\ effects' = << >>
  /\ Respond(302, "redirect:login", TRUE)

\* GET /dashboard
Dashboard ==
  /\ Handle(Req("/dashboard", "", "", << >>, << >>))
  /\ login_required(
       /\ effects' = << Effect("get_profile_stats", "") >>
       /\ Respond(200, "dashboard.html", TRUE)
       /\ UNCHANGED session)

\* GET /prompts
PromptsPage ==
  /\ Handle(Req("/prompts", "", "", << >>, << >>))
  /\ admin_required(
       /\ effects' = << Effect("get_all_prompts", "") >>
       /\ Respond(200, "prompts.html", TRUE)
       /\ UNCHANGED session)

\* urls = [u.strip() for u in urls if u.strip()]
CleanUrls(l) ==
  SelectSeq([j \in 1..Len(l) |-> UrlStrip(l[j])], LAMBDA u : u # << >>)

\* What scrape_multiple_urls may return for cleaned arguments: None when
\* nothing was extracted and there is no manual text, the dict otherwise;
\* a manual text that is not blank always gives the dict, and without URLs
\* and without manual text there is nothing to extract.
ScrapeOutcomes(urls_c, manual_c) ==
  IF manual_c # << >> THEN { "dict" }
  ELSE IF urls_c = << >> THEN { "None" }
  ELSE { "None", "dict" }

\* Steps 2 to 5 of generate, for a scraped dict: the dictionary, the prompt
\* template and build_prompt, any of which may raise into the outer except;
\* then, when the Claude client is available, the call of the API and
\* save_profile, whose exceptions the inner except takes.
GenerateFromScraped ==
  LET prep == << Effect("scrape_multiple_urls", "dict"),
                 Effect("get_treatment_dictionary", ""),
                 Effect("get_active_prompt", "") >>
  IN \E outcome \in { "raise", "no-claude", "claude-ok", "claude-raise" } :
       CASE outcome = "raise" ->
              /\ effects' = prep \o << Effect("build_prompt", "raise") >>
              /\ Respond(500, "error:exception", TRUE)
         [] outcome = "no-claude" ->
              /\ effects' = prep \o << Effect("build_prompt", "") >>
              /\ Respond(200, "success:prompt", TRUE)
         [] outcome = "claude-ok" ->
              /\ effects' = prep \o << Effect("build_prompt", ""),
                                       Effect("messages.create", ""),
                                       Effect("save_profile", "") >>
              /\ Respond(200, "success:automated", TRUE)
         [] outcome = "claude-raise" ->
              /\ effects' = prep \o << Effect("build_prompt", ""),
                                       Effect("messages.create", "raise") >>
              /\ Respond(200, "success:prompt", TRUE)

\* Mutant: the scraper is called without the check for empty input.
GenerateBodyUnvalidated(req_urls, req_manual) ==
  LET urls_c == CleanUrls(req_urls)
      manual_c == Strip(req_manual)
  IN /\ UNCHANGED session
     /\ \E scraped \in ScrapeOutcomes(urls_c, manual_c) :
          IF scraped = "None"
            THEN /\ effects' = << Effect("scrape_multiple_urls", "None") >>
                 /\ Respond(400, "error:paste-manually", TRUE)
            ELSE GenerateFromScraped

\* The body of generate.
GenerateBody(req_urls, req_manual) ==
  LET urls_c == CleanUrls(req_urls)
      manual_c == Strip(req_manual)
  IN /\ UNCHANGED session
     /\ IF urls_c = << >> /\ manual_c = << >>
          THEN /\ effects' = << >>
               /\ Respond(400, "error:provide-input", TRUE)
          ELSE \E scraped \in ScrapeOutcomes(urls_c, manual_c) :
                 IF scraped = "None"
                   THEN /\ effects' = << Effect("scrape_multiple_urls", "None") >>
                        /\ Respond(400, "error:paste-manually", TRUE)
                   ELSE GenerateFromScraped

\* The 'urls' and 'manual_text' of a request's JSON.
GenUrls == { l \in UrlLists : Len(l) <= 2 }

\* POST /generate
Generate ==
  \E req_urls \in GenUrls, req_manual \in ManualTexts :
    /\ Handle(Req("/generate", "", "", req_urls, req_manual))
    /\ login_required(GenerateBody(req_urls, req_manual))

\* The scraper is not running.
ScraperIdle ==
  /\ urls = << >>
  /\ manual_text = << >>
  /\ pc = "done"
  /\ i = 0
  /\ url = << >>
  /\ attempt = 0
  /\ last_error = << >>
  /\ html = << >>
  /\ data = << >>
  /\ all_sections = << >>
  /\ successful_urls = << >>
  /\ all_titles = << >>
  /\ errors = << >>
  /\ result = << >>
  /\ calls = << >>
  /\ returned = << >>
  /\ fetched = << >>
  /\ web = {}

InitApp == ScraperIdle /\ AppIdle /\ WalkIdle /\ DbIdle /\ PromptIdle

NextApp ==
  \/ LoginPost
  \/ Logout
  \/ Dashboard
  \/ PromptsPage
  \/ Generate

AppSpec == InitApp /\ [][NextApp]_vars

\* ============================================= extract_nextdata: the walk
\* The deepest nesting and the longest list of the payloads walked.
MaxNest == 8

MaxListLen == 52

WalkDepthCap == 6
ListCap == 50
LongMin == 20
ShortMin == 5
LineCap == 100
MinNormLen == 3

\* JSON values.  A string is known by id, the text it has when stripped and
\* lower-cased, cs, its variant in letter case, n, its length when
\* stripped, pad, the number of blanks around it, start, what the stripped
\* text starts with ("text" for none of 'http', '/', '<', '{'), and nl, the
\* number of line breaks inside it.
Str(id, cs, n, pad, start) ==
  [t |-> "str", id |-> id, cs |-> cs, n |-> n, pad |-> pad, start |-> start,
   nl |-> 0, items |-> << >>]

\* A dict, its items [k, v] in order
Dict(items) ==
  [t |-> "dict", id |-> 0, cs |-> 0, n |-> 0, pad |-> 0, start |-> "", nl |-> 0,
   items |-> items]

List(items) ==
  [t |-> "list", id |-> 0, cs |-> 0, n |-> 0, pad |-> 0, start |-> "", nl |-> 0,
   items |-> items]

\* null
Null ==
  [t |-> "null", id |-> 0, cs |-> 0, n |-> 0, pad |-> 0, start |-> "", nl |-> 0,
   items |-> << >>]

\* A number, n its value
Num(n) ==
  [t |-> "num", id |-> 0, cs |-> 0, n |-> n, pad |-> 0, start |-> "", nl |-> 0,
   items |-> << >>]

KV(k, v) == [k |-> k, v |-> v]

\* bool(v) of a JSON value
Truthy(v) ==
  CASE v.t = "str" -> v.n + v.pad > 0
    [] v.t \in {"dict", "list"} -> v.items # << >>
    [] v.t = "num" -> v.n # 0
    [] OTHER -> FALSE

\* The keys of the payloads, and str.lower() of them
Keys ==
  { "bio", "name", "Name", "jobTitle", "city", "imageUrl", "id", "doctor_id",
    "slug", "data" }

LowerKey(k) ==
  CASE k = "Name" -> "name"
    [] k = "jobTitle" -> "jobtitle"
    [] k = "imageUrl" -> "imageurl"
    [] OTHER -> k

\* Which of 'image', 'url', 'slug', '_id' are in a lower-cased key
Needles(k) ==
  CASE k = "imageurl" -> { "image", "url" }
    [] k = "slug" -> { "slug" }
    [] k = "doctor_id" -> { "_id" }
    [] OTHER -> {}

BioKeys ==
  { "name", "title", "designation", "qualification", "degree", "specialty", "city",
    "hospital", "department", "experience", "language", "jobtitle", "position" }

\* A call of extract_strings: its arguments, and at, the way from the root
\* of the walk to obj (one step per level: a key, or an index from 1).
Frame(obj, prefix, depth, at) ==
  [obj |-> obj, prefix |-> prefix, depth |-> depth, at |-> at]

Step(key, idx) == [key |-> key, idx |-> idx]

\* A collected string: the text appended to parts and where it was found.
Part(obj, key, len, at) ==
  [id |-> obj.id, cs |-> obj.cs, key |-> key, n |-> len, nl |-> obj.nl, at |-> at]

\* Mutant: the short strings of biographical keys have no least length.
CollectedAnyShort(f) ==
  LET cleaned == f.obj.n
      prefix == LowerKey(f.prefix)
  IN IF /\ cleaned > LongMin
        /\ f.obj.start = "text"
        /\ Needles(prefix) = {}
        /\ prefix # "id"
       THEN << Part(f.obj, "", cleaned, f.at) >>
     ELSE IF cleaned <= LongMin /\ prefix \in BioKeys
       THEN << Part(f.obj, f.prefix, Len(f.prefix) + 2 + cleaned, f.at) >>
     ELSE << >>

\* What extract_strings appends to parts for a string: the stripped string,
\* the stripped string after its key and ': ', or nothing.
Collected(f) ==
  LET cleaned == f.obj.n
      prefix == LowerKey(f.prefix)
  IN IF /\ cleaned > LongMin
        /\ f.obj.start = "text"
        /\ Needles(prefix) = {}
        /\ prefix # "id"
       THEN << Part(f.obj, "", cleaned, f.at) >>
     ELSE IF ShortMin < cleaned /\ cleaned <= LongMin /\ prefix \in BioKeys
       THEN << Part(f.obj, f.prefix, Len(f.prefix) + 2 + cleaned, f.at) >>
     ELSE << >>

\* Mutant: every element of a list is walked.
ChildrenUncapped(f) ==
  LET items == f.obj.items
  IN IF f.obj.t = "dict"
       THEN [j \in 1..Len(items) |->
               Frame(items[j].v, items[j].k, f.depth + 1,
                     Append(f.at, Step(items[j].k, 0)))]
     ELSE IF f.obj.t = "list"
       THEN [j \in 1..Len(items) |->
               Frame(items[j], f.prefix, f.depth + 1, Append(f.at, Step("", j)))]
     ELSE << >>

\* The calls extract_strings makes for the values of a dict or for the
\* first 50 elements of a list, in order.
Children(f) ==
  LET items == f.obj.items
      m == IF Len(items) < ListCap THEN Len(items) ELSE ListCap
  IN IF f.obj.t = "dict"
       THEN [j \in 1..Len(items) |->
               Frame(items[j].v, items[j].k, f.depth + 1,
                     Append(f.at, Step(items[j].k, 0)))]
     ELSE IF f.obj.t = "list"
       THEN [j \in 1..m |->
               Frame(items[j], f.prefix, f.depth + 1, Append(f.at, Step("", j)))]
     ELSE << >>

DoctorKeys ==
  << "doctor", "doctorDetail", "doctorData", "profileData", "doctorProfile", "data",
     "pageData", "detail", "doctorInfo", "profile" >>

\* d[k] of a dict: << >> when k is not a key of it
Lookup(d, k) ==
  LET js == { j \in 1..Len(d.items) : d.items[j].k = k }
  IN IF js = {} THEN << >>
     ELSE << d.items[CHOOSE j \in js : \A h \in js : h <= j].v >>

\* Mutant: the doctor key that comes first in props is taken.
TargetDataInPropsOrder(p) ==
  LET hits == { h \in 1..Len(p.items) :
                  /\ \E j \in 1..Len(DoctorKeys) : DoctorKeys[j] = p.items[h].k
                  /\ Truthy(p.items[h].v) }
  IN IF hits = {} THEN p
     ELSE p.items[CHOOSE h \in hits : \A g \in hits : h <= g].v

\* target_data: the value of the first doctor key that props has with a
\* value that is true; props itself when there is none.
TargetData(p) ==
  LET hits == { j \in 1..Len(DoctorKeys) :
                  Lookup(p, DoctorKeys[j]) # << >> /\ Truthy(Lookup(p, DoctorKeys[j])[1]) }
  IN IF hits = {} THEN p
     ELSE Lookup(p, DoctorKeys[CHOOSE j \in hits : \A h \in hits : j <= h])[1]

\* if not props: return ''; otherwise extract_strings is called on the root
WalkRoot ==
  /\ wpc = "root"
  /\ UNCHANGED << scraperVars, appVars, dbVars, promptVars >>
  /\ IF ~Truthy(props)
       THEN /\ output' = << << >> >>
            /\ wpc' = "done"
            /\ UNCHANGED << stack, parts, visits >>
       ELSE /\ stack' = << Frame(TargetData(props), "", 0, << >>) >>
            /\ wpc' = "walk"
            /\ UNCHANGED << parts, visits, output >>
  /\ UNCHANGED props

\* One call of extract_strings, up to the calls it makes itself.
WalkStep ==
  /\ wpc = "walk" /\ stack # << >>
  /\ UNCHANGED << scraperVars, appVars, dbVars, promptVars >>
  /\ LET f == Head(stack)
     IN /\ visits' = Append(visits, f.at)
        /\ IF f.depth > WalkDepthCap
             THEN stack' = Tail(stack) /\ parts' = parts
             ELSE /\ parts' = parts \o (IF f.obj.t = "str" THEN Collected(f) ELSE << >>)
                  /\ stack' = Children(f) \o Tail(stack)
  /\ UNCHANGED << props, wpc, output >>

\* Mutant: the parts are compared as written, letter case included.
UniqueCaseSensitive(ps, seen) ==
  LET normalized(p) == [id |-> p.id, cs |-> p.cs, key |-> p.key]
      entered(p) == p.n > MinNormLen
      at == [j \in 1 .. Len(ps) |-> [j |-> j, p |-> ps[j]]]
      added(x) ==
        /\ entered(x.p)
        /\ normalized(x.p) \notin seen
        /\ \A h \in 1 .. x.j - 1 :
             entered(ps[h]) => normalized(ps[h]) # normalized(x.p)
      kept == SelectSeq(at, added)
  IN [k \in 1 .. Len(kept) |-> kept[k].p]

\* The parts without those that repeat an earlier one when lower-cased and
\* stripped, and without those of three characters or fewer: the loop
\* `for p in parts` adds p when its normalized text is long enough and not
\* yet in seen, which then holds the normalized text of every earlier part
\* that was long enough.
Unique(ps, seen) ==
  LET normalized(p) == [id |-> p.id, key |-> LowerKey(p.key)]
      entered(p) == p.n > MinNormLen
      at == [j \in 1 .. Len(ps) |-> [j |-> j, p |-> ps[j]]]
      added(x) ==
        /\ entered(x.p)
        /\ normalized(x.p) \notin seen
        /\ \A h \in 1 .. x.j - 1 :
             entered(ps[h]) => normalized(ps[h]) # normalized(x.p)
      kept == SelectSeq(at, added)
  IN [k \in 1 .. Len(kept) |-> kept[k].p]

WalkEnd ==
  /\ wpc = "walk" /\ stack = << >>
  /\ UNCHANGED << scraperVars, appVars, dbVars, promptVars >>
  /\ output' = << SubSeq(Unique(parts, {}), 1,
                         IF Len(Unique(parts, {})) < LineCap
                           THEN Len(Unique(parts, {})) ELSE LineCap) >>
  /\ wpc' = "done"
  /\ UNCHANGED << props, stack, parts, visits >>

\* ---------------------------------------------------- the payloads walked
\* A string of 30 characters that is collected wherever the walk finds it
Leaf(id) == Str(id, 0, 30, 0, "text")

\* leaf under d levels of dicts and lists in turn
RECURSIVE Nest(_, _)
Nest(d, leaf) ==
  IF d = 0 THEN leaf
  ELSE IF d % 2 = 1 THEN Dict(<< KV("bio", Nest(d - 1, leaf)) >>)
  ELSE List(<< Nest(d - 1, leaf) >>)

\* The lengths of the lists: none, one, and about the cap
ListLens == { 0, 1, ListCap - 1, ListCap, ListCap + 1, MaxListLen }

\* props with a doctor entry: a list of n strings, beside a string under d
\* levels (d + 1 levels below the root of the walk)
DeepProps ==
  { Dict(<< KV("doctor",
               Dict(<< KV("bio", List([j \in 1..n |-> Leaf(j)])),
                       KV("about", Nest(d, Leaf(0))) >>)) >>) :
      n \in ListLens, d \in 0..MaxNest }

\* A long list at each depth down to the cap
DeepListProps ==
  { Dict(<< KV("doctor", Nest(d, List([j \in 1..MaxListLen |-> Leaf(j)]))) >>) :
      d \in { 1, WalkDepthCap - 1, WalkDepthCap } }

StrLens == { 0, 3, ShortMin, ShortMin + 1, LongMin, LongMin + 1, 40 }

Strs ==
  { Str(1, 0, n, 0, s) :
      n \in StrLens, s \in { "text", "http", "/", "<", "{" } }
  \cup { Str(1, 0, n, 2, "text") : n \in StrLens }

\* props without a true doctor entry: one string under each key
FlatProps ==
  { Dict(<< KV(k, v) >>) : k \in Keys, v \in { x \in Strs : x.start = "text" \/ x.n >= ShortMin } }

\* A biographical string in a list under its key, an empty props, a null
\* doctor entry beside a string
OddProps ==
  { Dict(<< KV("city", List(<< Str(1, 0, n, 0, "text"), Null >>)) >>) : n \in StrLens }
  \cup { Dict(<< >>),
         Dict(<< KV("doctor", Null), KV("name", Str(1, 0, 10, 0, "text")) >>),
         Dict(<< KV("name", Str(1, 0, 10, 0, "text")),
                 KV("Name", Str(1, 1, 10, 0, "text")),
                 KV("profile", Dict(<< >>)) >>) }

\* A string of 30 characters in a letter case of its own
Cased(id) == Str(id, 1, 30, 0, "text")

\* A string of 30 characters in three lines
Para(id) == [Leaf(id) EXCEPT !.nl = 2]

\* Strings that repeat: as written, in another letter case, between blanks
DupProps ==
  { Dict(<< KV("doctor",
               List(<< Leaf(1), Cased(1), Leaf(2), Str(1, 0, 30, 2, "text"),
                       Cased(2), Cased(3), Leaf(3) >>)) >>),
    Dict(<< KV("doctor",
               Dict(<< KV("Name", Str(1, 1, 10, 0, "text")),
                       KV("more", Dict(<< KV("name", Str(1, 0, 10, 0, "text")) >>)),
                       KV("city", Str(1, 0, 10, 0, "text")) >>)) >>) }

\* More than 100 strings: two lists of which 50 each are walked, and a
\* third with a repeated string; first being the first string of all.
BigProps ==
  { Dict(<< KV("doctor",
               Dict(<< KV("a", List(<< first >> \o [j \in 1..MaxListLen - 1 |-> Leaf(j)])),
                       KV("b", List([j \in 1..MaxListLen |-> Leaf(100 + j)])),
                       KV("c", List(<< Cased(1), Leaf(201), Leaf(202), Leaf(203) >>)) >>)) >>) :
      first \in { Leaf(0), Para(0) } }

\* The values that are false: null, {}, [], '', 0
Falsy == { Null, Dict(<< >>), List(<< >>), Str(9, 0, 0, 0, "text"), Num(0) }

\* props with doctor keys among other entries: two of them with content,
\* the one later in the priority list first; the first with a false value;
\* a number or a blank string under one; none with a true value.
RootProps ==
  { Dict(<< KV("bio", Leaf(1)),
            KV("profile", Dict(<< KV("about", Leaf(2)) >>)),
            KV("doctor", Dict(<< KV("bio", Leaf(3)) >>)),
            KV("data", Leaf(4)) >>) }
  \cup { Dict(<< KV("doctor", v),
                 KV("bio", Leaf(1)),
                 KV("profile", List(<< Leaf(2), Leaf(5) >>)) >>) : v \in Falsy }
  \cup { Dict(<< KV("bio", Leaf(1)), KV("data", v), KV("about", Leaf(2)) >>) :
           v \in { Num(7), Str(4, 0, 0, 2, "text"), Leaf(4) } }
  \cup { Dict(<< KV("doctor", v), KV("pageData", w), KV("bio", Leaf(1)),
                 KV("more", Dict(<< KV("about", Leaf(2)) >>)) >>) :
           v \in Falsy, w \in Falsy }

Payloads ==
  DeepProps \cup DeepListProps \cup FlatProps \cup OddProps \cup DupProps \cup BigProps
  \cup RootProps

InitWalk ==
  /\ ScraperIdle
  /\ AppIdle
  /\ DbIdle
  /\ PromptIdle
  /\ props \in Payloads
  /\ wpc = "root"
  /\ stack = << >>
  /\ parts = << >>
  /\ visits = << >>
  /\ output = << >>

NextWalk == WalkRoot \/ WalkStep \/ WalkEnd

\* The walk is one call of a function: it goes on while it has a step.
WalkSpec == InitWalk /\ [][NextWalk]_vars /\ WF_vars(NextWalk)

\* ================================================================ claims
R == result[1]

Done == pc = "done"

Returned == Done /\ ~R.none

\* The non-blank entries of urls, stripped, in input order.
NonBlank ==
  SelectSeq([j \in 1..Len(urls) |-> UrlStrip(urls[j])], LAMBDA u : u # << >>)

\* The length of t without its leading and trailing whitespace.
TrimmedLen(t) ==
  LET ns == { c \in 1..Len(t) : ~IsSpace(t[c]) }
  IN IF ns = {} THEN 0
     ELSE LET lo == CHOOSE c \in ns : \A d \in ns : c <= d
              hi == CHOOSE c \in ns : \A d \in ns : c >= d
          IN TextLen(SubSeq(t, lo, hi))

\* The extracted text of call j, trimmed, is longer than 50 characters.
LongText(j) == ~returned[j].none /\ TrimmedLen(returned[j].text) > 50

RECURSIVE Pick(_, _, _)
\* The URLs of the calls j..Len(calls) whose LongText is `want`, in order.
Pick(j, want, n) ==
  IF j > n THEN << >>
  ELSE (IF LongText(j) = want THEN << calls[j] >> ELSE << >>) \o Pick(j + 1, want, n)

\* C1: in a returned batch, 'urls' is the subsequence, in input order, of the
\* non-blank URLs whose extracted text, trimmed, is longer than 50 characters;
\* 'errors' has one entry, for that URL, for every other non-blank URL, in
\* input order; blank entries give neither; so the two lengths add up to the
\* number of non-blank URLs, and url_count is the length of 'urls'.
C1_SuccessAndErrorPartition ==
  Returned =>
    /\ calls = NonBlank
    /\ Len(returned) = Len(calls)
    /\ R.urls = Pick(1, TRUE, Len(calls))
    /\ [j \in 1..Len(R.errors) |-> R.errors[j].url] = Pick(1, FALSE, Len(calls))
    /\ \A j \in 1..Len(R.errors) : R.errors[j].msg # << >>
    /\ Len(R.urls) + Len(R.errors) = Len(NonBlank)
    /\ R.url_count = Len(R.urls)

\* Three URLs, the second of which fails with 50 characters of text exactly.
C1_Witness ==
  /\ Returned
  /\ Len(urls) = MaxUrls
  /\ Len(calls) = 3
  /\ ~returned[2].none /\ TextLen(returned[2].text) = 50
  /\ Len(R.urls) = 2 /\ Len(R.errors) = 1

\* No strategy has anything to accept on the page: no structured data, no
\* embedded payload, no meta tags, semantic and body text under their
\* thresholds.
NoExtractable(page) ==
  /\ extract_jsonld(page) = << >>
  /\ extract_nextdata(page) = << >>
  /\ extract_meta_tags(page) = << >>
  /\ TextLen(extract_semantic_content(page)) <= 200
  /\ TextLen(extract_body_text(page)) <= 100

\* C2 (as claimed): a call that fetched a page with no extractable content
\* adds one entry to 'errors' for its URL, and neither lists the URL as
\* successful nor adds a section for it.
C2_NoContentIsAnError ==
  [][(pc = "fetch" /\ pc' = "loop" /\ html' # << >> /\ NoExtractable(html'[1])) =>
       /\ Len(errors') = Len(errors) + 1
       /\ errors'[Len(errors')].url = url
       /\ successful_urls' = successful_urls
       /\ all_sections' = all_sections]_vars

\* The URLs of the '=== SOURCE: <url> ===' delimiters that are in t whole,
\* in the order they appear.
RECURSIVE Markers(_)
Markers(t) ==
  IF t = << >> THEN << >>
  ELSE (IF Head(t).k = "source" /\ Whole(Head(t)) THEN << Head(t).tag >> ELSE << >>)
       \o Markers(Tail(t))

IsPrefix(a, b) == Len(a) <= Len(b) /\ a = SubSeq(b, 1, Len(a))

\* C3 (as claimed): combined_text holds a source delimiter for exactly the
\* URLs of 'urls', one each, in that order, whatever the texts' lengths.
C3_MarkersAreSuccessfulUrls ==
  Returned => Markers(R.combined_text) = R.urls

\* C3 (amended): the source delimiters that scrape_multiple_urls wrote and
\* that are whole in combined_text are those of a prefix of 'urls', one each,
\* in that order; of all of 'urls' when total_chars is at most 15000.
C3_MarkersArePrefix ==
  Returned =>
    /\ IsPrefix(Markers(R.combined_text), R.urls)
    /\ R.total_chars <= 15000 => Markers(R.combined_text) = R.urls

\* Three URLs, the second failing: delimiters for the first and the third.
C3_Witness ==
  /\ Returned
  /\ Len(calls) = 3
  /\ R.urls = << calls[1], calls[3] >>
  /\ Len(R.errors) = 1
  /\ Markers(R.combined_text) = << calls[1], calls[3] >>

\* The length of the joined sections, counted from the calls' results: for
\* each successful call '=== SOURCE: ' url ' ===' '\n' text, for the manual
\* text the 37-character delimiter, '\n' and the trimmed text, and '\n\n'
\* between sections.
RECURSIVE SectionChars(_)
SectionChars(j) ==
  IF j = 0 THEN 0
  ELSE SectionChars(j - 1)
       + (IF LongText(j) THEN 12 + Len(calls[j]) + 4 + 1 + TextLen(returned[j].text) ELSE 0)

NonSpace(t) == \E j \in 1..Len(t) : ~IsSpace(t[j])

ManualChars ==
  IF NonSpace(manual_text) THEN 37 + 1 + TextLen(Strip(manual_text)) ELSE 0

NumSections ==
  Cardinality({ j \in 1..Len(returned) : LongText(j) })
  + (IF NonSpace(manual_text) THEN 1 ELSE 0)

UncutChars == SectionChars(Len(returned)) + ManualChars + 2 * (NumSections - 1)

\* C4: combined_text is never longer than 15000 characters, and total_chars
\* is the length of the combined text before the cut: at least the length of
\* combined_text, and equal to it exactly when nothing was cut.
C4_BatchCap ==
  Returned =>
    /\ TextLen(R.combined_text) <= 15000
    /\ R.total_chars = UncutChars
    /\ R.total_chars >= TextLen(R.combined_text)
    /\ (R.total_chars = TextLen(R.combined_text)) <=> (R.combined_text = Combined)

\* More than 15000 characters were joined and the result holds 15000.
C4_Witness ==
  /\ Returned
  /\ R.total_chars > 15000
  /\ TextLen(R.combined_text) = 15000
  /\ Len(R.urls) >= 2

\* C5: None is returned if and only if no URL succeeded and the manual text
\* has no non-whitespace character; otherwise the dict is returned.
C5_NoneIffNothing ==
  Done =>
    (R.none <=> ((\A j \in 1..Len(returned) : ~LongText(j)) /\ ~NonSpace(manual_text)))

\* Every URL failed and the manual text is blank, not empty: None.
C5_Witness ==
  /\ Done /\ R.none
  /\ Len(calls) = MaxUrls
  /\ manual_text # << >>

\* call j ended with the given error message
FailedWith(j, msg) == ~returned[j].none /\ returned[j].error = msg

\* The batch is not stuck: the loop can take its next entry (skip it or call
\* scrape_single_url), or it is past the last entry, where the function
\* returns, or the call in progress can end its fetch loop.
CanStep ==
  \/ ENABLED SkipBlank
  \/ ENABLED Call
  \/ ENABLED FetchConnectionError
  \/ (pc = "loop" /\ i = Len(urls))

ManualSection == << Seg("manualmark", << >>, 37) >> \o NL(1) \o Strip(manual_text)

\* C7 (as claimed): with no URLs and manual text that is not blank, the
\* batch is returned with has_manual_text true, url_count 0, no urls, no
\* errors, and its combined_text is the manual delimiter followed by the
\* trimmed manual text.
C7_ManualOnlyWholeText ==
  (Done /\ urls = << >> /\ NonSpace(manual_text)) =>
    /\ ~R.none
    /\ R.has_manual_text /\ R.url_count = 0 /\ R.urls = << >> /\ R.errors = << >>
    /\ R.combined_text = ManualSection

\* C7 (amended): ... and its combined_text is the manual delimiter followed
\* by the trimmed manual text, cut to 15000 characters in all.
C7_ManualOnly ==
  (Done /\ urls = << >> /\ NonSpace(manual_text)) =>
    /\ ~R.none
    /\ R.has_manual_text /\ R.url_count = 0 /\ R.urls = << >> /\ R.errors = << >>
    /\ R.combined_text[1] = Seg("manualmark", << >>, 37)
    /\ R.combined_text = Take(ManualSection, 15000)
    /\ TextLen(R.combined_text) = IF R.total_chars < 15000 THEN R.total_chars ELSE 15000

\* No URLs and a pasted text with blanks around it, returned trimmed.
C7_Witness ==
  /\ Done /\ urls = << >> /\ ~R.none
  /\ IsSpace(manual_text[1])
  /\ R.combined_text = << Seg("manualmark", << >>, 37), Seg("nl", << >>, 1),
                          Seg("manual", << >>, 20) >>

\* The latest call of scrape_single_url fetched a page and has returned.
Fetched == pc = "loop" /\ html # << >> /\ data # << >>

IsNamedProfile(item) == item.parses /\ item.type \in ProfileTypes /\ item.name # << >>

\* C8 (as claimed): for a fetched page with a well-formed JSON-LD profile
\* block that has a name, the result's method is 'json-ld' and its text has
\* the line 'Name: <value>' with that name.
C8_JsonldChosen ==
  Fetched =>
    \A b \in 1..Len(html[1].jsonld) :
      IsNamedProfile(html[1].jsonld[b]) =>
        /\ ~data[1].none
        /\ data[1].method = "json-ld"
        /\ \E c \in 1..Len(data[1].text) :
             /\ data[1].text[c].k = "name"
             /\ data[1].text[c].tag = html[1].jsonld[b].name
             /\ Whole(data[1].text[c])

ListText(page) ==
  SumLen(SelectSeq(page.main, LAMBDA e : e.tag \in {"p", "li"}))

\* C9 (as claimed): for a fetched page with no structured data, no embedded
\* payload and a <main> with at least 200 characters of paragraph and list
\* text, the result's method is 'semantic' and its text has every distinct
\* list item of <main> once, after a bullet.
C9_SemanticChosen ==
  (Fetched /\ html[1].jsonld = << >> /\ html[1].nextdata = << >>
     /\ ListText(html[1]) >= 200) =>
    /\ ~data[1].none
    /\ data[1].method = "semantic"
    /\ \A e \in 1..Len(html[1].main) :
         html[1].main[e].tag = "li" =>
           Cardinality({ c \in 1..Len(data[1].text) - 1 :
                           /\ data[1].text[c].k = "bullet"
                           /\ data[1].text[c].tag = << html[1].main[e].txt >>
                           /\ data[1].text[c + 1].k = "el"
                           /\ Whole(data[1].text[c + 1]) }) = 1

\* C10 (as claimed): the result for a fetched page carries a title: the text
\* of the first h1 when there is one, otherwise the text of <title>.
C10_TitlePrefersH1 ==
  Fetched =>
    /\ FindH1(html[1]) # << >> =>
         (~data[1].none /\ data[1].title = FindH1(html[1])[1].txt)
    /\ (FindH1(html[1]) = << >> /\ FindTitle(html[1]) # << >>) =>
         (~data[1].none /\ data[1].title = FindTitle(html[1])[1])

\* The method of the first state, in the order json-ld, nextjs-data,
\* semantic, body-text, meta-only, whose output meets its threshold on the
\* page; "" (the failure state) when none does.
FirstAccepted(page) ==
  IF TextLen(extract_jsonld(page)) > 100 THEN "json-ld"
  ELSE IF TextLen(extract_nextdata(page)) > 100 THEN "nextjs-data"
  ELSE IF TextLen(extract_semantic_content(page)) > 200 THEN "semantic"
  ELSE IF TextLen(extract_body_text(page)) > 100 THEN "body-text"
  ELSE IF extract_meta_tags(page) # << >> THEN "meta-only"
  ELSE ""

\* C11 (as claimed): the result for a fetched page is that of the first
\* state, in the order structured data, embedded JSON, semantic content,
\* full body, meta only, failure, whose output meets its threshold (more than
\* 100, 100, 200, 100 characters, non-empty meta text); the failure result is
\* the only one that carries an error.
C11_FirstAcceptedIsReturned ==
  Fetched =>
    /\ ~data[1].none
    /\ data[1].method = FirstAccepted(html[1])
    /\ (data[1].error # << >>) <=> (FirstAccepted(html[1]) = "")

\* C12 (as claimed): the text of every result scrape_single_url returns,
\* from the site-specific override or from any of the generic states, is at
\* most 8000 characters long.
C12_ResultWithinCap ==
  \A j \in 1..Len(returned) :
    ~returned[j].none => TextLen(returned[j].text) <= 8000

RECURSIVE SuccessTitles(_)
SuccessTitles(j) ==
  IF j = 0 THEN << >>
  ELSE SuccessTitles(j - 1) \o (IF LongText(j) THEN << returned[j].title >> ELSE << >>)

\* C14 (as claimed): 'titles' has one title per successful URL, the i-th
\* title being the one recorded for the i-th URL of 'urls'.
C14_TitlesAligned ==
  Returned =>
    /\ Len(R.titles) = Len(R.urls)
    /\ R.titles = SuccessTitles(Len(returned))

\* C14 (amended): 'titles' holds the non-empty titles recorded for the
\* successful URLs, in the order the URLs were processed; it has one title
\* per URL of 'urls', the i-th for the i-th, when none of those titles is
\* empty, and is shorter than 'urls' otherwise.
C14_TitlesNonEmptyInOrder ==
  Returned =>
    LET all == SuccessTitles(Len(returned))
        empty == { j \in 1..Len(all) : all[j] = "" }
    IN /\ Len(all) = Len(R.urls)
       /\ R.titles = SelectSeq(all, LAMBDA t : t # "")
       /\ Len(R.titles) = Len(R.urls) - Cardinality(empty)
       /\ empty = {} => R.titles = all

\* Three successful URLs, the second with an empty <title>: two titles, the
\* second of which belongs to the third URL.
C14_Witness ==
  /\ Returned
  /\ Len(R.urls) = 3
  /\ returned[1].title = "Dr A" /\ returned[2].title = "" /\ returned[3].title = "Dr B"
  /\ R.titles = << "Dr A", "Dr B" >>

IsSuffix(a, b) == Len(a) <= Len(b) /\ a = SubSeq(b, Len(b) - Len(a) + 1, Len(b))

\* The manual delimiters in t.
ManualMarks(t) == { c \in 1..Len(t) : t[c].k = "manualmark" }

\* C15: when the manual text has a non-whitespace character, the joined text
\* ends with the manual section (the user-pasted-input delimiter, a newline,
\* the trimmed manual text), which is its only manual section and comes after
\* a blank line when URL sections precede it, and the result has
\* has_manual_text true; when the manual text is empty or all whitespace, the
\* joined text has no manual section and a returned result has
\* has_manual_text false.
C15_ManualSectionLast ==
  Done =>
    IF NonSpace(manual_text)
      THEN /\ ~R.none /\ R.has_manual_text
           /\ IsSuffix(ManualSection, Combined)
           /\ ManualMarks(Combined) = { Len(Combined) - Len(ManualSection) + 1 }
           /\ R.urls # << >> => IsSuffix(NL(2) \o ManualSection, Combined)
           /\ R.total_chars <= 15000 => IsSuffix(ManualSection, R.combined_text)
      ELSE /\ ManualMarks(Combined) = {}
           /\ ~R.none => (~R.has_manual_text /\ ManualMarks(R.combined_text) = {})

\* Two URL sections and then the pasted text, given with blanks around it
\* and returned without them.
C15_Witness ==
  /\ Returned
  /\ Len(R.urls) = 2
  /\ manual_text # << >> /\ IsSpace(manual_text[1])
  /\ R.has_manual_text
  /\ R.total_chars <= 15000
  /\ Markers(R.combined_text) = R.urls
  /\ IsSuffix(<< Seg("manualmark", << >>, 37), Seg("nl", << >>, 1),
                 Seg("manual", << >>, 20) >>, R.combined_text)

\* The latest request was for route and its handler's body ran.
Ran(route) ==
  response # << >> /\ request[1].route = route /\ response[1].ran

\* The calls of name among the effects of the latest request.
Calls(name) == { c \in 1..Len(effects) : effects[c].call = name }

\* No entry of the list has a character that is not a blank.
AllBlank(l) == \A j \in 1..Len(l) : \A c \in 1..Len(l[j]) : l[j][c] = " "

\* C16: generate answers a request whose URLs are all blank and whose manual
\* text is blank with 400 and the validation message, without calling the
\* scraper; it answers a None from the scraper with 400 and the message to
\* paste the information manually; in both cases build_prompt, the API and
\* save_profile are not called.
C16_GenerateRejects ==
  Ran("/generate") =>
    /\ (AllBlank(request[1].urls) /\ ~NonSpace(request[1].manual_text)) =>
         /\ response[1].status = 400
         /\ response[1].kind = "error:provide-input"
         /\ effects = << >>
    /\ (\E c \in Calls("scrape_multiple_urls") : effects[c].result = "None") =>
         /\ response[1].status = 400
         /\ response[1].kind = "error:paste-manually"
         /\ Len(effects) = 1
    /\ response[1].status = 400 =>
         /\ Calls("build_prompt") = {}
         /\ Calls("messages.create") = {}
         /\ Calls("save_profile") = {}
    /\ response[1].status # 400 => Calls("scrape_multiple_urls") = {1}

\* A logged-in user's request with one URL and a blank manual text, for
\* which the scraper found nothing.
C16_Witness ==
  /\ Ran("/generate")
  /\ ~AllBlank(request[1].urls)
  /\ request[1].manual_text # << >> /\ ~NonSpace(request[1].manual_text)
  /\ response[1].status = 400
  /\ response[1].kind = "error:paste-manually"
  /\ effects = << [call |-> "scrape_multiple_urls", result |-> "None"] >>

\* The credentials are the configured admin's, or those of an active row of
\* users with role super_admin or editor; the role they give.
ValidLogin(email, password, role) ==
  \/ email = AdminUsername /\ password = AdminPassword /\ role = "super_admin"
  \/ \E u \in Users :
       /\ u.email = email /\ u.password = password /\ u.is_active
       /\ u.role \in {"super_admin", "editor"}
       /\ role = u.role

\* C17: in every step, the body of a handler behind login_required runs
\* only with a user in the session, and without one the answer is the
\* redirect to login; the body of a handler behind admin_required runs only
\* with a session user of role super_admin, the answer being the redirect
\* without a user and 403 for another role; and the session user changes
\* only to nothing, or, in a POST to /login, to the user that the
\* configured admin credentials or an active super_admin or editor row with
\* the password given stand for.
C17_AuthGuards ==
  [][LET req == request'[1]
         res == response'[1]
     IN /\ req.route \in {"/dashboard", "/generate", "/prompts"} =>
             /\ res.ran => session # << >>
             /\ session = << >> => (res.status = 302 /\ res.kind = "redirect:login")
             /\ session' = session
        /\ req.route = "/prompts" =>
             /\ res.ran => session[1].role = "super_admin"
             /\ (session # << >> /\ session[1].role # "super_admin") =>
                  (res.status = 403 /\ ~res.ran)
        /\ session' # session =>
             \/ session' = << >>
             \/ /\ req.route = "/login"
                /\ session'[1].email = req.email
                /\ ValidLogin(req.email, req.password, session'[1].role)]_vars

\* An editor of the users table is logged in and has asked for /prompts.
C17_Witness ==
  /\ session # << >>
  /\ session[1].role = "editor" /\ session[1].source = "db"
  /\ request # << >> /\ request[1].route = "/prompts"
  /\ response[1].status = 403

\* The step ends a call of scrape_single_url that fetched no page.
SurfacesFetchError == pc = "fetch" /\ pc' = "loop" /\ html' = << >>

\* C18 (as claimed): a fetch error is surfaced for a URL only after all
\* three header profiles were tried and failed, every failed attempt before
\* the third moving on to the next profile.
C18_ErrorOnlyAfterAllProfiles ==
  [][SurfacesFetchError => attempt + 1 = 3]_vars

\* C18 (amended): in the fetch loop at most three attempts are made; an
\* attempt that fails with a timeout, a non-200 status or another exception
\* that is not a connection error moves on to the next header profile and
\* surfaces nothing; the first attempt that fetches a page ends the loop and
\* the call returns what was extracted from it; a connection error ends the
\* loop at once and is surfaced as such; otherwise an error is surfaced only
\* by the third attempt, and it is the reason of that attempt, or 'Could not
\* fetch page' when that attempt left none.
C18_RetryThenSurface ==
  [][pc = "fetch" =>
       /\ attempt < 3
       /\ pc' = "fetch" =>
            /\ attempt' = attempt + 1 /\ attempt' < 3
            /\ last_error' \in { << "HTTP 403", attempt + 1 >>, << "Timeout", attempt + 1 >>,
                                 << >> }
            /\ html' = << >>
            /\ returned' = returned /\ errors' = errors
       /\ (pc' = "loop" /\ html' # << >>) =>
            /\ Len(returned') = Len(returned) + 1
            /\ returned'[Len(returned')] = ParseAndExtract(html'[1])
       /\ SurfacesFetchError =>
            LET d == returned'[Len(returned')]
            IN /\ Len(returned') = Len(returned) + 1
               /\ ~d.none /\ d.text = << >>
               /\ errors' = Append(errors, [url |-> url, msg |-> d.error])
               /\ \/ d.error = << "Connection failed" >>
                  \/ /\ attempt + 1 = 3
                     /\ d.error \in { << "HTTP 403", 3 >>, << "Timeout", 3 >>,
                                       << "Could not fetch page" >> }]_vars

\* The first URL ended with a connection error, the second with a timeout
\* on the third header profile, and the third has failed twice so far.
C18_Witness ==
  /\ Len(returned) = 2
  /\ FailedWith(1, << "Connection failed" >>)
  /\ FailedWith(2, << "Timeout", 3 >>)
  /\ pc = "fetch" /\ attempt = 2 /\ last_error = << "HTTP 403", 2 >>

\* ------------------------------------------------------------------- C19
\* The steps of a way that take a list element past the first 50
PastCap(at) == { h \in 1..Len(at) : at[h].idx > ListCap }

\* C19: in the walk of the embedded JSON no string found more than 6 levels
\* below the root of the walk is collected, no element of a list after its
\* first 50 is visited (nor anything under one), and the walk of every
\* payload comes to its end.
C19_WalkCaps ==
  /\ [](/\ \A j \in 1..Len(parts) :
             Len(parts[j].at) <= WalkDepthCap /\ PastCap(parts[j].at) = {}
        /\ \A j \in 1..Len(visits) : PastCap(visits[j]) = {})
  /\ <>(wpc = "done" /\ stack = << >>)

\* The walk is over of a payload with a list of more than 50 strings and a
\* string 9 levels down: 50 of the list were collected, the deep one not,
\* and a call was made at level 7.
C19_Witness ==
  /\ wpc = "done"
  /\ props = Dict(<< KV("doctor",
                        Dict(<< KV("bio", List([j \in 1..MaxListLen |-> Leaf(j)])),
                                KV("about", Nest(MaxNest, Leaf(0))) >>)) >>)
  /\ Len(parts) = ListCap
  /\ \E j \in 1..Len(visits) : Len(visits[j]) = WalkDepthCap + 1
  /\ \E j \in 1..Len(visits) : visits[j] = << Step("bio", 0), Step("", ListCap) >>

\* ------------------------------------------------------------------- C20
\* The value at the end of a way from obj
RECURSIVE ValueAt(_, _)
ValueAt(obj, at) ==
  IF at = << >> THEN obj
  ELSE IF obj.t = "dict" THEN ValueAt(Lookup(obj, Head(at).key)[1], Tail(at))
  ELSE ValueAt(obj.items[Head(at).idx], Tail(at))

\* The key a value is found under: that of the nearest dict above it
KeyAt(at) ==
  LET ks == { h \in 1..Len(at) : at[h].idx = 0 }
  IN IF ks = {} THEN "" ELSE at[CHOOSE h \in ks : \A g \in ks : g <= h].key

\* The strings the walk has come to, as the ways to them
StringsWalked ==
  { at \in { visits[j] : j \in 1..Len(visits) } :
      Len(at) <= WalkDepthCap /\ ValueAt(TargetData(props), at).t = "str" }

PartsAt(at) == { j \in 1..Len(parts) : parts[j].at = at }

\* URL-, path-, markup- or id-shaped: by what the string starts with, or by
\* its key
Shaped(v, k) ==
  \/ v.start \in { "http", "/", "<", "{" }
  \/ Needles(LowerKey(k)) # {}
  \/ LowerKey(k) = "id"

\* A string the walk comes to is collected once, as it is or after its key,
\* if and only if it is of one of the two kinds; long and short are the
\* kinds' bounds on the stripped length.
CollectedIff(long(_), short(_)) ==
  \A at \in StringsWalked :
    LET v == ValueAt(TargetData(props), at)
        k == KeyAt(at)
    IN IF long(v.n) /\ ~Shaped(v, k)
         THEN \E j \in PartsAt(at) :
                PartsAt(at) = {j} /\ parts[j].key = "" /\ parts[j].n = v.n
       ELSE IF short(v.n) /\ LowerKey(k) \in BioKeys
         THEN \E j \in PartsAt(at) :
                /\ PartsAt(at) = {j}
                /\ parts[j].key = k
                /\ parts[j].n = Len(k) + 2 + v.n
       ELSE PartsAt(at) = {}

IsLong(n) == n > LongMin
IsShort(n) == n <= LongMin
IsShortNotTiny(n) == ShortMin < n /\ n <= LongMin

\* C20 as stated: a string leaf of the walk is collected if and only if (a)
\* it is longer than 20 characters and not URL/path/id-shaped, or (b) it is
\* of 20 characters or fewer and its key is a biographical field name, and
\* then as '<key>: <value>'.
C20_CollectedIffAsStated == CollectedIff(IsLong, IsShort)

\* C20 amended: as above, with (b) for strings of 6 to 20 characters only,
\* the lengths being those of the stripped strings and the key compared in
\* lower case.
C20_CollectedIff == CollectedIff(IsLong, IsShortNotTiny)

\* A job title of 20 characters between blanks, under the key 'jobTitle',
\* was collected after its key.
C20_Witness ==
  /\ wpc = "done"
  /\ props = Dict(<< KV("jobTitle", Str(1, 0, LongMin, 2, "text")) >>)
  /\ Len(parts) = 1
  /\ parts[1].key = "jobTitle"
  /\ Len(output[1]) = 1

\* ------------------------------------------------------------------- C21
IsMalformed(b) == ~b.parses \/ b.deep \/ b.root \in ShapeRoots

\* The page without its malformed blocks and without a malformed payload
WellFormed(page) ==
  [page EXCEPT !.jsonld = SelectSeq(@, LAMBDA b : ~IsMalformed(b)),
               !.nextdata = IF page.nextraw = "ok" THEN @ ELSE << >>,
               !.nextraw = "ok"]

HasMalformed(page) == WellFormed(page) # page

\* C21: a JSON-LD block or an embedded payload that is not JSON, or JSON of
\* an unexpected shape, never makes the call raise and never shows as an
\* error: an ordinary URL's call returns what it returns for the page
\* without the malformed block, so the other blocks are still extracted and
\* the next strategies still run.
C21_MalformedJsonIsSkipped ==
  /\ pc # "raised"
  /\ \A j \in 1..Len(returned) :
       (~IsSiteUrl(calls[j]) /\ fetched[j] # << >> /\ HasMalformed(fetched[j][1]))
         => returned[j] = ParseAndExtract(WellFormed(fetched[j][1]))

\* ------------------------------------------------------------------- C22
\* A collected entry lower-cased: its text and its key
Folded(p) == << p.id, LowerKey(p.key) >>

\* The entries of parts that do not repeat an earlier one, in walk order
Firsts ==
  LET first(j) == ~\E h \in 1..j - 1 : Folded(parts[h]) = Folded(parts[j])
      kept == SelectSeq([j \in 1..Len(parts) |-> j], first)
  IN [k \in 1..Len(kept) |-> parts[kept[k]]]

\* The output holds no two entries equal ignoring case, and is the first
\* occurrences in walk order, the first 100 of them at most.
UniqueFirsts ==
  LET out == output[1]
      firsts == Firsts
  IN /\ \A a, b \in 1..Len(out) : Folded(out[a]) = Folded(out[b]) => a = b
     /\ Len(out) = (IF Len(firsts) < LineCap THEN Len(firsts) ELSE LineCap)
     /\ out = SubSeq(firsts, 1, Len(out))

\* The lines of the entries: one for each, and one more for each line
\* break in it
LineCount(out) ==
  Len(out)
  + Cardinality(UNION { { << j, k >> : k \in 1..out[j].nl } :
                          j \in 1..Len(out) })

\* C22 as stated: the output of extract_nextdata holds no two entries equal
\* ignoring case, the first occurrence being kept in walk order, and is of
\* 100 lines at most.
C22_UniqueAnd100Lines ==
  (wpc = "done" /\ output # << >>) => (UniqueFirsts /\ LineCount(output[1]) <= LineCap)

\* C22 amended: as above, the cap being of 100 entries; an entry with line
\* breaks in it is of several lines.
C22_UniqueAnd100Entries ==
  (wpc = "done" /\ output # << >>) => (UniqueFirsts /\ Len(output[1]) <= LineCap)

\* More than 100 strings were collected, one of them an earlier one again
\* in capitals, and 100 were returned.
C22_Witness ==
  /\ wpc = "done"
  /\ output # << >>
  /\ Len(parts) > LineCap
  /\ Len(Firsts) > LineCap
  /\ Len(output[1]) = LineCap
  /\ \E h, j \in 1..Len(parts) :
       h < j /\ Folded(parts[j]) = Folded(parts[h]) /\ parts[j].cs # parts[h].cs

\* ------------------------------------------------------------------- C23
\* A value that is not empty: a string of some characters, an object or a
\* list with something in it, a number other than 0
NonEmpty(v) ==
  \/ v.t = "str" /\ v.n + v.pad > 0
  \/ v.t \in { "dict", "list" } /\ Len(v.items) > 0
  \/ v.t = "num" /\ v.n # 0

\* The places in the priority list of the doctor keys under which props
\* has a non-empty value
DoctorHits ==
  { j \in 1..Len(DoctorKeys) :
      \E h \in 1..Len(props.items) :
        props.items[h].k = DoctorKeys[j] /\ NonEmpty(props.items[h].v) }

\* The sub-tree to walk: that of the first hit, all of props without a hit
SubTree ==
  IF DoctorHits = {} THEN props
  ELSE LET first == CHOOSE j \in DoctorHits : \A h \in DoctorHits : j <= h
           at == CHOOSE h \in 1..Len(props.items) : props.items[h].k = DoctorKeys[first]
       IN props.items[at].v

\* The texts of the strings of a value
RECURSIVE LeafIds(_)
LeafIds(v) ==
  IF v.t = "str" THEN { v.id }
  ELSE IF v.t = "dict" THEN UNION { LeafIds(v.items[j].v) : j \in 1..Len(v.items) }
  ELSE IF v.t = "list" THEN UNION { LeafIds(v.items[j]) : j \in 1..Len(v.items) }
  ELSE {}

\* C23: when pageProps has a non-empty value under a known doctor key, the
\* walk is of that sub-tree only, the first such key of the priority list,
\* and nothing of the rest of the payload is collected; without such a key
\* the walk is of the whole pageProps.
C23_DoctorSubTreeOnly ==
  (props # << >> /\ NonEmpty(props) /\ wpc # "root") =>
    /\ visits = << >> => (stack # << >> /\ Head(stack).obj = SubTree)
    /\ visits # << >> => visits[1] = << >>
    /\ \A j \in 1..Len(parts) :
          /\ parts[j].id \in LeafIds(SubTree)
          /\ ValueAt(SubTree, parts[j].at).id = parts[j].id

\* The walk is over of a payload with content under 'profile', then under
\* 'doctor', and beside them: only the string under 'doctor' was collected.
C23_Witness ==
  /\ wpc = "done"
  /\ props = Dict(<< KV("bio", Leaf(1)),
                     KV("profile", Dict(<< KV("about", Leaf(2)) >>)),
                     KV("doctor", Dict(<< KV("bio", Leaf(3)) >>)),
                     KV("data", Leaf(4)) >>)
  /\ Len(parts) = 1 /\ parts[1].id = 3
  /\ Len(output[1]) = 1

\* ------------------------------------------------------------------- C24
SiteMethods == { "max-nextjs", "max-jsonld", "max-semantic", "max-body", "google-cache" }

\* What the call that ends with this step returns
NowReturned == returned'[Len(returned')]

\* C24: a URL of the site's pattern is first given to the override, and a
\* result of the override with more than 100 characters of text is what
\* the call returns, at once: the fetch loop and the generic strategies do
\* not run.  When the override gives nothing, and for every other URL, the
\* fetch loop starts as for any URL and the call returns what the generic
\* strategies make of the page fetched.
C24_OverrideFirst ==
  [][/\ (pc = "loop" /\ pc' = "site") => IsSiteUrl(url')
     /\ (pc = "loop" /\ pc' = "fetch") => (~IsSiteUrl(url') \/ Slug(url') = << >>)
     /\ (pc \in { "site", "cache" } /\ pc' = "loop") =>
          /\ NowReturned.method \in SiteMethods
          /\ TextLen(NowReturned.text) > SiteMin
     /\ pc = "site" => pc' # "fetch"
     /\ (pc = "cache" /\ pc' = "fetch") =>
          /\ attempt' = 0 /\ last_error' = << >> /\ html' = << >>
          /\ returned' = returned
     /\ (pc = "fetch" /\ pc' = "loop") =>
          /\ NowReturned.method \notin SiteMethods
          /\ html' # << >> => NowReturned = ParseAndExtract(html'[1])
          /\ html' = << >> => (NowReturned.text = << >> /\ NowReturned.error # << >>)
    ]_vars

\* The call for the doctor page, the domain written with capitals, has
\* returned the override's result without a pass of the fetch loop.
C24_Witness ==
  /\ calls = << << "MaxHealthcare.in/doctor/", "dr-x" >> >>
  /\ Len(returned) = 1
  /\ returned[1].method = "max-nextjs"
  /\ TextLen(returned[1].text) > SiteMin

\* ------------------------------------------------------------------- C25
\* The calls that returned by the structured-data strategy
JsonldAccepted == { j \in 1..Len(returned) : returned[j].method = "json-ld" }

\* The page header and the structured-data block of the page of call j
StructuredPart(j) ==
  PageHeader(returned[j].title) \o NL(2)
  \o Txt("lit", << "--- Structured Data ---" >>, 23) \o NL(1)
  \o extract_jsonld(fetched[j][1])

\* The semantic content of that page under its heading
ContentPart(j) ==
  NL(2) \o Txt("lit", << "--- Page Content ---" >>, 20) \o NL(1)
  \o extract_semantic_content(fetched[j][1])

SemanticLen(j) == TextLen(extract_semantic_content(fetched[j][1]))

\* C25 as stated: the text returned by the structured-data strategy is the
\* structured-data block and, after it, under its heading, whatever
\* semantic content the page has.
C25_SemanticAlwaysAppended ==
  \A j \in JsonldAccepted :
    returned[j].text =
      StructuredPart(j) \o (IF SemanticLen(j) > 0 THEN ContentPart(j) ELSE << >>)

\* C25 amended: the semantic content is appended when it is of more than
\* 100 characters, and left out otherwise; the text is cut to 8000
\* characters, so the structured-data block comes first and whole as far as
\* the cap allows, and the semantic content is whole when both fit.
C25_SemanticAppendedOver100 ==
  \A j \in JsonldAccepted :
    LET t == returned[j].text
    IN /\ TextLen(t) <= ResultCap
       /\ IsPrefix(Take(StructuredPart(j), ResultCap), t)
       /\ SemanticLen(j) <= SupplementMin => t = Take(StructuredPart(j), ResultCap)
       /\ SemanticLen(j) > SupplementMin =>
            /\ t = Take(StructuredPart(j) \o ContentPart(j), ResultCap)
            /\ TextLen(StructuredPart(j) \o ContentPart(j)) <= ResultCap
                 => IsSuffix(ContentPart(j), t)

\* A profile with 300 characters of semantic content was returned: the
\* content is at the end of the text, under its heading.
C25_Witness ==
  \E j \in JsonldAccepted :
    /\ SemanticLen(j) > SupplementMin
    /\ returned[j].text = StructuredPart(j) \o ContentPart(j)

\* ------------------------------------------------------------------- C26
\* One of the stronger strategies meets its threshold on the page
Stronger(page) ==
  \/ TextLen(extract_jsonld(page)) > JsonldMin
  \/ TextLen(extract_nextdata(page)) > NextdataMin
  \/ TextLen(extract_semantic_content(page)) > SemanticMin
  \/ TextLen(extract_body_text(page)) > BodyMin

\* The calls that returned from the generic strategies, or fell off them
Generic ==
  { j \in 1..Len(returned) : fetched[j] # << >> /\ returned[j].method \notin SiteMethods }

\* C26: the meta-tag text is returned alone, as 'meta-only', exactly when
\* no stronger strategy met its threshold on the page and there is meta-tag
\* text; in a 'semantic' or 'body-text' result the meta-tag text, when there
\* is some, comes before the strategy's text.
C26_MetaOnlyIffNothingStronger ==
  \A j \in Generic :
    LET page == fetched[j][1]
        d == returned[j]
        meta == extract_meta_tags(page)
        own == IF d.method = "semantic" THEN extract_semantic_content(page)
               ELSE extract_body_text(page)
    IN /\ d.method = "meta-only" <=> (~Stronger(page) /\ meta # << >>)
       /\ d.method = "meta-only" => d.text = PageHeader(d.title) \o NL(2) \o meta
       /\ (d.method \in { "semantic", "body-text" } /\ meta # << >>) =>
            d.text = Take(PageHeader(d.title) \o NL(1) \o NL(1) \o meta \o NL(1)
                          \o NL(1) \o own, ResultCap)

\* ------------------------------------------------------------------- C27
\* The lengths of the lines to keep, in order: the lines of more than
\* `over` characters and the list items
RECURSIVE KeptLens(_, _)
KeptLens(lines, over) ==
  IF lines = << >> THEN << >>
  ELSE (IF Head(lines).n > 0 /\ (Head(lines).n > over \/ Head(lines).bullet)
          THEN << Head(lines).n >> ELSE << >>)
       \o KeptLens(Tail(lines), over)

RECURSIVE SumSeq(_)
SumSeq(q) == IF q = << >> THEN 0 ELSE Head(q) + SumSeq(Tail(q))

\* The lengths of the lines of a text
LineLens(t) ==
  LET body == SelectSeq(t, LAMBDA g : g.k = "body")
  IN [j \in 1..Len(body) |-> body[j].n]

\* The body text of every fetched page is the lines to keep, one per line
BodyTextKeeps(over) ==
  \A j \in 1..Len(fetched) :
    fetched[j] # << >> =>
      LET t == extract_body_text(fetched[j][1])
          lens == KeptLens(fetched[j][1].loose, over)
      IN /\ LineLens(t) = lens
         /\ TextLen(t) = SumSeq(lens) + (IF lens = << >> THEN 0 ELSE Len(lens) - 1)
         /\ (j <= Len(returned) /\ returned[j].method = "body-text") =>
              LineLens(returned[j].text) = lens

\* C27 as stated: the full-body fallback keeps, in document order, every
\* non-empty line of at least 10 characters or starting with a list marker,
\* and drops the others.
C27_KeepsLinesOfTen == BodyTextKeeps(MinBodyLineLen - 1)

\* C27 amended: the lines kept are those of more than 10 characters and
\* those starting with a list marker; a line of exactly 10 characters
\* without a marker is dropped.
C27_KeepsLinesOverTen == BodyTextKeeps(MinBodyLineLen)

\* The body-text result of a page with a long line, a line of 10
\* characters and a list item of 9: the first and the last were kept.
C27_Witness ==
  /\ Len(returned) = 1
  /\ returned[1].method = "body-text"
  /\ fetched[1][1].loose =
       << [n |-> 95, bullet |-> FALSE], [n |-> MinBodyLineLen, bullet |-> FALSE],
          [n |-> MinBodyLineLen - 1, bullet |-> TRUE] >>
  /\ LineLens(returned[1].text) = << 95, MinBodyLineLen - 1 >>

\* ------------------------------------------------------------------- C28
\* A step of the call for one URL is one network attempt; attempt is the
\* place of the attempt's header set in the list of its phase.
\* C28: the override's header loop makes at most 4 attempts, each with the
\* next header set, and is followed by at most 1 attempt for the cached
\* copy, both for URLs of the site's pattern only; the fetch loop makes at
\* most 3 attempts, each with the next header set; the phases come in this
\* order and none is entered twice; and the batch comes to its end.
C28_BoundedAttempts ==
  /\ [][/\ pc = "site" =>
            /\ IsSiteUrl(url) /\ attempt < NumSiteHeaderSets
            /\ \/ pc' = "site" /\ attempt' = attempt + 1
               \/ pc' = "cache" /\ attempt + 1 = NumSiteHeaderSets
               \/ pc' = "loop"
        /\ pc = "cache" => (IsSiteUrl(url) /\ pc' \in { "fetch", "loop" })
        /\ pc = "fetch" =>
            /\ attempt < NumHeaderSets
            /\ \/ pc' = "fetch" /\ attempt' = attempt + 1
               \/ pc' \in { "loop", "raised" }
        /\ (pc = "loop" /\ pc' # "loop") =>
            (attempt' = 0 /\ pc' \in { "site", "fetch", "done" })
       ]_vars
  /\ <>(pc \in { "done", "raised" })

\* The call for a doctor page of the site has ended after the third
\* attempt of the fetch loop timed out: the override's four header sets and
\* the cached copy had been tried before.
C28_Witness ==
  /\ pc = "done"
  /\ calls = << << "maxhealthcare.in/doctor/", "dr-x" >> >>
  /\ Len(returned) = 1
  /\ returned[1].error = << "Timeout", NumHeaderSets >>

\* ======================================================== db_connector.py
\* The prompt templates: init_generator_tables and save_prompt, each call
\* running alone, statement by statement inside its transaction.

\* Calls of db_connector.py in one run.
MaxSaves == 3

\* The names a prompt is saved under.
PromptNames == { "Untitled", "Short" }

\* prompt_id as the request gives it: 0 stands for none (`if prompt_id:` takes
\* both the same way); the largest never names a row.
PromptIds == 0 .. MaxSaves + 1

PromptRow(id, name, is_active) ==
  [id |-> id, name |-> name, is_active |-> is_active]

\* SELECT ... FROM generator_prompts WHERE is_active = true, the ids
ActiveIds(rows) ==
  { rows[j].id : j \in { k \in 1 .. Len(rows) : rows[k].is_active } }

\* UPDATE generator_prompts SET is_active = false
Deactivated(rows) ==
  [j \in 1 .. Len(rows) |-> [rows[j] EXCEPT !.is_active = FALSE]]

\* UPDATE generator_prompts SET name=%s, ..., is_active=%s WHERE id=%s
Updated(rows, id, name, is_active) ==
  [j \in 1 .. Len(rows) |->
     IF rows[j].id = id THEN PromptRow(id, name, is_active) ELSE rows[j]]

\* What a returned call of save_prompt leaves for the record: id is the row
\* the call wrote to, before the rows when it was made.
SaveRecord(args, ok, id) ==
  [prompt_id |-> args.prompt_id, name |-> args.name,
   set_active |-> args.set_active, before |-> args.before,
   ok |-> ok, id |-> id]

\* init_generator_tables(), at a start of the application: without a
\* connection nothing happens; else the table is created if it is not there
\* and the default prompt is inserted as the active one when the count of
\* active rows is 0, in one transaction, which an exception rolls back (a
\* value the sequence drew stays drawn).
init_generator_tables ==
  /\ dpc \in { "boot", "idle" } /\ db_calls < MaxSaves
  /\ db_calls' = db_calls + 1
  /\ saved' = << >>
  /\ UNCHANGED << scraperVars, appVars, walkVars, promptVars >>
  /\ UNCHANGED << work, save_args >>
  /\ \/ UNCHANGED << generator_prompts, prompts_id_seq, dpc >>
     \/ /\ ActiveIds(generator_prompts) # { }
        /\ dpc' = "idle"
        /\ UNCHANGED << generator_prompts, prompts_id_seq >>
     \/ /\ ActiveIds(generator_prompts) = { }
        /\ \/ /\ generator_prompts' =
                   Append(generator_prompts,
                          PromptRow(prompts_id_seq + 1,
                                    "Default Profile Generator", TRUE))
              /\ prompts_id_seq' = prompts_id_seq + 1
              /\ dpc' = "idle"
           \/ /\ prompts_id_seq' = IF dpc = "boot" THEN prompts_id_seq
                                                  ELSE prompts_id_seq + 1
              /\ UNCHANGED << generator_prompts, dpc >>

\* save_prompt(prompt_id, name, prompt_text, set_active, user_email) up to
\* `with conn.cursor() as cur`: without a connection it returns False, and
\* so it does, its first statement failing, while there is no table.
SaveCall(prompt_id, name, set_active) ==
  /\ dpc \in { "boot", "idle" } /\ db_calls < MaxSaves
  /\ db_calls' = db_calls + 1
  /\ UNCHANGED << scraperVars, appVars, walkVars, promptVars >>
  /\ UNCHANGED << generator_prompts, prompts_id_seq >>
  /\ LET args == [prompt_id |-> prompt_id, name |-> name,
                  set_active |-> set_active, before |-> generator_prompts]
     IN \/ /\ saved' = << SaveRecord(args, FALSE, 0) >>
           /\ UNCHANGED << dpc, work, save_args >>
        \/ /\ dpc = "idle"
           /\ save_args' = << args >>
           /\ work' = generator_prompts
           /\ dpc' = "deactivate"
           /\ saved' = << >>

\* if set_active: UPDATE generator_prompts SET is_active = false
SaveDeactivate ==
  /\ dpc = "deactivate"
  /\ UNCHANGED << scraperVars, appVars, walkVars, promptVars >>
  /\ UNCHANGED << generator_prompts, prompts_id_seq, save_args, saved,
                  db_calls >>
  /\ IF save_args[1].set_active
       THEN \/ work' = Deactivated(work) /\ dpc' = "write"
            \/ dpc' = "rollback" /\ UNCHANGED work
       ELSE dpc' = "write" /\ UNCHANGED work

\* if prompt_id: UPDATE ... WHERE id=%s   else: INSERT INTO generator_prompts
SaveWrite ==
  /\ dpc = "write"
  /\ UNCHANGED << scraperVars, appVars, walkVars, promptVars >>
  /\ UNCHANGED << generator_prompts, save_args, saved, db_calls >>
  /\ LET a == save_args[1]
     IN IF a.prompt_id # 0
          THEN /\ UNCHANGED prompts_id_seq
               /\ \/ /\ work' = Updated(work, a.prompt_id, a.name,
                                         a.set_active)
                     /\ dpc' = "commit"
                  \/ dpc' = "rollback" /\ UNCHANGED work
          ELSE \/ /\ prompts_id_seq' = prompts_id_seq + 1
                  /\ work' = Append(work, PromptRow(prompts_id_seq + 1,
                                                   a.name, a.set_active))
                  /\ dpc' = "commit"
               \/ /\ prompts_id_seq' \in { prompts_id_seq,
                                           prompts_id_seq + 1 }
                  /\ dpc' = "rollback" /\ UNCHANGED work

\* conn.commit(); return True
SaveCommit ==
  /\ dpc = "commit"
  /\ UNCHANGED << scraperVars, appVars, walkVars, promptVars >>
  /\ UNCHANGED << prompts_id_seq, db_calls >>
  /\ LET a == save_args[1]
     IN \/ /\ generator_prompts' = work
           /\ saved' = << SaveRecord(a, TRUE,
                                     IF a.prompt_id # 0 THEN a.prompt_id
                                                        ELSE prompts_id_seq) >>
           /\ dpc' = "idle"
           /\ work' = << >>
           /\ save_args' = << >>
        \/ /\ dpc' = "rollback"
           /\ UNCHANGED << generator_prompts, work, save_args, saved >>

\* except Exception: conn.rollback(); return False
SaveRollback ==
  /\ dpc = "rollback"
  /\ UNCHANGED << scraperVars, appVars, walkVars, promptVars >>
  /\ UNCHANGED << generator_prompts, prompts_id_seq, db_calls >>
  /\ saved' = << SaveRecord(save_args[1], FALSE, 0) >>
  /\ dpc' = "idle"
  /\ work' = << >>
  /\ save_args' = << >>

InitDb == ScraperIdle /\ AppIdle /\ WalkIdle /\ DbIdle /\ PromptIdle

NextDb ==
  \/ init_generator_tables
  \/ \E prompt_id \in PromptIds, name \in PromptNames, set_active \in BOOLEAN :
       SaveCall(prompt_id, name, set_active)
  \/ SaveDeactivate
  \/ SaveWrite
  \/ SaveCommit
  \/ SaveRollback

DbSpec == InitDb /\ [][NextDb]_vars

\* ------------------------------------------------------------------- C29
\* At most one committed row is active.
OneActive == Cardinality(ActiveIds(generator_prompts)) <= 1

\* After a save with set_active that returned True, the row it wrote to is
\* the one active row.
SavedIsTheActive ==
  (saved # << >> /\ saved[1].ok /\ saved[1].set_active)
    => ActiveIds(generator_prompts) = { saved[1].id }

\* After a save that returned False the rows are as they were.
FailedSaveChangesNothing ==
  (saved # << >> /\ ~saved[1].ok) => generator_prompts = saved[1].before

\* C29: from init_generator_tables on and through any calls of save_prompt
\* run one after the other, at most one row of generator_prompts is active;
\* after a successful save with set_active the saved prompt is the only
\* active one; a failed save leaves the active prompts as they were.
C29_OneActivePrompt ==
  /\ OneActive
  /\ SavedIsTheActive
  /\ FailedSaveChangesNothing

\* ====================================================== prompt_builder.py
\* A text is the sequence of its pieces: the braces, the two placeholder
\* words, and pieces standing for any other run of characters.

\* '{scraped_data}' and '{treatment_dictionary}'
ScrapedPlaceholder == << "{", "scraped_data", "}" >>
TreatmentPlaceholder == << "{", "treatment_dictionary", "}" >>

\* str.replace(old, new): the occurrences of old from the left, none
\* overlapping another, what was put in not being looked at again.
RECURSIVE Replace(_, _, _)
Replace(text, old, new) ==
  IF Len(text) < Len(old) THEN text
  ELSE IF SubSeq(text, 1, Len(old)) = old
    THEN new \o Replace(SubSeq(text, Len(old) + 1, Len(text)), old, new)
    ELSE << text[1] >> \o Replace(Tail(text), old, new)

\* sep.join(texts)
RECURSIVE JoinWith(_, _)
JoinWith(texts, sep) ==
  IF texts = << >> THEN << >>
  ELSE IF Len(texts) = 1 THEN texts[1]
  ELSE texts[1] \o sep \o JoinWith(Tail(texts), sep)

\* format_scraped_data(scraped_data)
format_scraped_data(sd) ==
  IF sd = << >> THEN << "(No data scraped)" >>
  ELSE LET d == sd[1]
           sources == IF d.urls # << >>
                        THEN << << "Source URLs: " >>
                                \o JoinWith(d.urls, << ", " >>) >>
                        ELSE << >>
           titles == IF d.titles # << >>
                       THEN << << "Page titles: " >>
                               \o JoinWith(d.titles, << ", " >>) >>
                       ELSE << >>
           content == IF d.combined_text # << >>
                        THEN << << "\n--- Extracted Content ---\n" >>
                                \o d.combined_text >>
                        ELSE << >>
           lines == sources \o titles \o content
       IN IF lines # << >> THEN JoinWith(lines, << "\n" >>)
                           ELSE << "(No data available)" >>

\* The specialties and the treatment names of the runs, each list in the
\* order sorted() gives.
Specialties == << "Cardiology", "Uncategorized" >>
ProcNames == << << "Angioplasty" >>, ScrapedPlaceholder >>

\* t.get('specialty') or 'Uncategorized'
SpecialtyOf(t) == IF t.specialty = "" THEN "Uncategorized" ELSE t.specialty

\* by_specialty[spec], the entries equal to name
Procs(treatments, spec, name) ==
  { j \in 1 .. Len(treatments) :
      SpecialtyOf(treatments[j]) = spec /\ treatments[j].name = name }

\* the lines "  (bullet) proc" of one specialty, from the k-th name on
RECURSIVE ProcLines(_, _, _)
ProcLines(treatments, spec, k) ==
  IF k > Len(ProcNames) THEN << >>
  ELSE [j \in 1 .. Cardinality(Procs(treatments, spec, ProcNames[k])) |->
          << "  (bullet) " >> \o ProcNames[k]]
       \o ProcLines(treatments, spec, k + 1)

\* the lines of the specialties from the k-th on
RECURSIVE SpecialtyLines(_, _)
SpecialtyLines(treatments, k) ==
  IF k > Len(Specialties) THEN << >>
  ELSE (IF \E j \in 1 .. Len(treatments) :
             SpecialtyOf(treatments[j]) = Specialties[k]
          THEN << << "\n[", Specialties[k], "]" >> >>
               \o ProcLines(treatments, Specialties[k], 1)
          ELSE << >>)
       \o SpecialtyLines(treatments, k + 1)

\* format_treatment_dictionary(treatments)
format_treatment_dictionary(treatments) ==
  IF treatments = << >> THEN << "(No treatments loaded from database)" >>
  ELSE LET by_specialty == { SpecialtyOf(treatments[j]) :
                               j \in 1 .. Len(treatments) }
           total == << "\nTotal: ", ToString(Len(treatments)),
                       " treatments across ",
                       ToString(Cardinality(by_specialty)), " specialties" >>
       IN JoinWith(SpecialtyLines(treatments, 1) \o << total >>, << "\n" >>)

\* build_prompt(prompt_template, scraped_data, treatment_dict)
build_prompt(template, sd, treatments) ==
  LET treatments_text == format_treatment_dictionary(treatments)
      scraped_text == format_scraped_data(sd)
  IN Replace(Replace(template, ScrapedPlaceholder, scraped_text),
             TreatmentPlaceholder, treatments_text)

\* Pieces a template is put together from.
MaxPieces == 2

TemplatePieces ==
  { << "You are a writer. " >>, ScrapedPlaceholder, TreatmentPlaceholder,
    << "{" >>, << "scraped_data", "}" >> }

PieceSeqs == UNION { [1 .. n -> TemplatePieces] : n \in 0 .. MaxPieces }

\* The admin-editable templates.
Templates == { JoinWith(ps, << >>) : ps \in PieceSeqs }

\* combined_text: none, plain, or holding the text of a placeholder, as a
\* scraped page or the manual text may.
CombinedTexts ==
  { << >>, << "Dr A is a cardiologist." >>, TreatmentPlaceholder,
    ScrapedPlaceholder,
    << "Dr A. " >> \o TreatmentPlaceholder \o << " MBBS" >> }

\* What the routes of app.py hand to build_prompt as scraped_data.
ScrapedDatas ==
  { << >> } \cup
  { << [urls |-> u, titles |-> t, combined_text |-> c] >> :
      u \in { << >>, << << "http://a" >> >>,
              << << "http://a" >>, << "http://b" >> >> },
      t \in { << >>, << << "Dr A" >> >> },
      c \in CombinedTexts }

Treatment(specialty, name) == [specialty |-> specialty, name |-> name]

\* get_treatment_dictionary()'s rows
TreatmentDicts ==
  { << >>,
    << Treatment("Cardiology", << "Angioplasty" >>) >>,
    << Treatment("", ScrapedPlaceholder),
       Treatment("Cardiology", << "Angioplasty" >>) >>,
    << Treatment("Cardiology", ScrapedPlaceholder),
       Treatment("Cardiology", << "Angioplasty" >>),
       Treatment("Cardiology", << "Angioplasty" >>) >> }

InitPrompt ==
  /\ ScraperIdle /\ AppIdle /\ WalkIdle /\ DbIdle
  /\ prompt_template \in Templates
  /\ scraped_data \in ScrapedDatas
  /\ treatment_dict \in TreatmentDicts
  /\ final_prompt = << >>

\* final_prompt = build_prompt(prompt_template, scraped, treatments)
BuildPrompt ==
  /\ final_prompt = << >>
  /\ final_prompt' =
       << build_prompt(prompt_template, scraped_data, treatment_dict) >>
  /\ UNCHANGED << scraperVars, appVars, walkVars, dbVars >>
  /\ UNCHANGED << prompt_template, scraped_data, treatment_dict >>

NextPrompt == BuildPrompt

PromptSpec == InitPrompt /\ [][NextPrompt]_vars

\* ------------------------------------------------------------------- C30
\* The template with each placeholder replaced on its own: the template is
\* read once from the left, and nothing put in is read again.
RECURSIVE Filled(_, _, _)
Filled(template, scraped_text, treatments_text) ==
  IF template = << >> THEN << >>
  ELSE IF /\ Len(template) >= Len(ScrapedPlaceholder)
          /\ SubSeq(template, 1, Len(ScrapedPlaceholder)) = ScrapedPlaceholder
    THEN scraped_text
         \o Filled(SubSeq(template, Len(ScrapedPlaceholder) + 1,
                          Len(template)), scraped_text, treatments_text)
  ELSE IF /\ Len(template) >= Len(TreatmentPlaceholder)
          /\ SubSeq(template, 1, Len(TreatmentPlaceholder))
               = TreatmentPlaceholder
    THEN treatments_text
         \o Filled(SubSeq(template, Len(TreatmentPlaceholder) + 1,
                          Len(template)), scraped_text, treatments_text)
  ELSE << template[1] >>
       \o Filled(Tail(template), scraped_text, treatments_text)

\* C30: the prompt build_prompt returns is the template with the formatted
\* scraped data at each '{scraped_data}' and the formatted treatment
\* dictionary at each '{treatment_dictionary}' of the template, a
\* placeholder inside the scraped data or the dictionary staying as it is.
C30_PlaceholdersIndependent ==
  final_prompt # << >> =>
    final_prompt[1] = Filled(prompt_template,
                             format_scraped_data(scraped_data),
                             format_treatment_dictionary(treatment_dict))

====
